---- MODULE Spec2Model ----
(***************************************************************************)
(* Meal planner: unit-aware ingredient consolidation, pantry deduction and *)
(* the storage transactions around them.                                   *)
(*                                                                         *)
(* Quantities are Python floats in the source; here they are exact         *)
(* rationals <<n, d>> with d > 0 in lowest terms, so that a conversion     *)
(* really multiplies and divides by the source's factors.                  *)
(***************************************************************************)
EXTENDS Integers, Sequences, FiniteSets, TLC

----------------------------------------------------------------------------
(* Rational arithmetic standing for the float operators of the source.     *)

Abs(n) == IF n < 0 THEN -n ELSE n

RECURSIVE GCD(_, _)
GCD(a, b) == IF b = 0 THEN a ELSE GCD(b, a % b)

\* the rational n/d (d > 0) in lowest terms
Rat(n, d) == LET g == GCD(Abs(n), d) IN <<n \div g, d \div g>>

Zero == <<0, 1>>

RAdd(a, b) ==
    LET l == (a[2] \div GCD(a[2], b[2])) * b[2]
    IN  Rat(a[1] * (l \div a[2]) + b[1] * (l \div b[2]), l)

RNeg(a) == <<-a[1], a[2]>>

RSub(a, b) == RAdd(a, RNeg(b))

\* cross-cancelling keeps the intermediate products small
RMul(a, b) ==
    LET g1 == GCD(Abs(a[1]), b[2])
        g2 == GCD(Abs(b[1]), a[2])
    IN  Rat((a[1] \div g1) * (b[1] \div g2), (a[2] \div g2) * (b[2] \div g1))

\* a / b for b > 0
RDiv(a, b) == RMul(a, <<b[2], b[1]>>)

RLt(a, b) == RSub(a, b)[1] < 0

RLe(a, b) == RSub(a, b)[1] <= 0

RMin(a, b) == IF RLe(a, b) THEN a ELSE b

RMax(a, b) == IF RLe(a, b) THEN b ELSE a

----------------------------------------------------------------------------
(* utils.py: the unit tables.                                              *)

VOLUME_TO_ML ==
    "ml" :> <<1, 1>> @@ "milliliter" :> <<1, 1>> @@ "milliliters" :> <<1, 1>> @@
    "l" :> <<1000, 1>> @@ "liter" :> <<1000, 1>> @@ "liters" :> <<1000, 1>> @@
    "tsp" :> <<4929, 1000>> @@ "teaspoon" :> <<4929, 1000>> @@ "teaspoons" :> <<4929, 1000>> @@
    "tbsp" :> <<14787, 1000>> @@ "tablespoon" :> <<14787, 1000>> @@ "tablespoons" :> <<14787, 1000>> @@
    "cup" :> <<59147, 250>> @@ "cups" :> <<59147, 250>> @@ "fl oz" :> <<14787, 500>> @@
    "fluid ounce" :> <<14787, 500>> @@ "fluid ounces" :> <<14787, 500>> @@ "pint" :> <<59147, 125>> @@
    "pints" :> <<59147, 125>> @@ "quart" :> <<946353, 1000>> @@ "quarts" :> <<946353, 1000>> @@
    "gallon" :> <<378541, 100>> @@ "gallons" :> <<378541, 100>>

WEIGHT_TO_G ==
    "g" :> <<1, 1>> @@ "gram" :> <<1, 1>> @@ "grams" :> <<1, 1>> @@
    "kg" :> <<1000, 1>> @@ "kilogram" :> <<1000, 1>> @@ "kilograms" :> <<1000, 1>> @@
    "oz" :> <<56699, 2000>> @@ "ounce" :> <<56699, 2000>> @@ "ounces" :> <<56699, 2000>> @@
    "lb" :> <<56699, 125>> @@ "pound" :> <<56699, 125>> @@ "pounds" :> <<56699, 125>>

COUNT_UNITS ==
    {"bunch", "bunches", "can", "cans", "clove", "cloves", "dash", "dozen", "item", "items", "package",
     "packages", "piece", "pieces", "pinch", "pkg", "slice", "slices", "whole"}

UNIT_ALIASES ==
    "tablespoon" :> "tbsp" @@ "tablespoons" :> "tbsp" @@ "teaspoon" :> "tsp" @@
    "teaspoons" :> "tsp" @@ "ounce" :> "oz" @@ "ounces" :> "oz" @@
    "pound" :> "lb" @@ "pounds" :> "lb" @@ "gram" :> "g" @@
    "grams" :> "g" @@ "kilogram" :> "kg" @@ "kilograms" :> "kg" @@
    "milliliter" :> "ml" @@ "milliliters" :> "ml" @@ "liter" :> "l" @@
    "liters" :> "l" @@ "cup" :> "cup" @@ "cups" :> "cup" @@
    "fluid ounce" :> "fl oz" @@ "fluid ounces" :> "fl oz" @@ "pint" :> "pint" @@
    "pints" :> "pint" @@ "quart" :> "quart" @@ "quarts" :> "quart" @@
    "gallon" :> "gallon" @@ "gallons" :> "gallon"

INGREDIENT_CATEGORIES ==
    "onion" :> "Produce" @@ "onions" :> "Produce" @@
    "yellow onion" :> "Produce" @@ "red onion" :> "Produce" @@
    "garlic" :> "Produce" @@ "tomato" :> "Produce" @@
    "tomatoes" :> "Produce" @@ "cherry tomatoes" :> "Produce" @@
    "bell pepper" :> "Produce" @@ "red bell pepper" :> "Produce" @@
    "broccoli" :> "Produce" @@ "cucumber" :> "Produce" @@
    "lettuce" :> "Produce" @@ "romaine lettuce" :> "Produce" @@
    "spinach" :> "Produce" @@ "carrot" :> "Produce" @@
    "carrots" :> "Produce" @@ "celery" :> "Produce" @@
    "zucchini" :> "Produce" @@ "potato" :> "Produce" @@
    "potatoes" :> "Produce" @@ "lemon" :> "Produce" @@
    "lemons" :> "Produce" @@ "lime" :> "Produce" @@
    "banana" :> "Produce" @@ "bananas" :> "Produce" @@
    "apple" :> "Produce" @@ "basil" :> "Produce" @@
    "cilantro" :> "Produce" @@ "parsley" :> "Produce" @@
    "chicken" :> "Meat & Seafood" @@ "chicken breast" :> "Meat & Seafood" @@
    "chicken thighs" :> "Meat & Seafood" @@ "beef" :> "Meat & Seafood" @@
    "ground beef" :> "Meat & Seafood" @@ "pork" :> "Meat & Seafood" @@
    "salmon" :> "Meat & Seafood" @@ "shrimp" :> "Meat & Seafood" @@
    "fish" :> "Meat & Seafood" @@ "milk" :> "Dairy & Eggs" @@
    "eggs" :> "Dairy & Eggs" @@ "egg" :> "Dairy & Eggs" @@
    "cheese" :> "Dairy & Eggs" @@ "cheddar cheese" :> "Dairy & Eggs" @@
    "mozzarella" :> "Dairy & Eggs" @@ "parmesan cheese" :> "Dairy & Eggs" @@
    "feta cheese" :> "Dairy & Eggs" @@ "greek yogurt" :> "Dairy & Eggs" @@
    "yogurt" :> "Dairy & Eggs" @@ "butter" :> "Dairy & Eggs" @@
    "cream" :> "Dairy & Eggs" @@ "sour cream" :> "Dairy & Eggs" @@
    "bread" :> "Bakery" @@ "tortillas" :> "Bakery" @@
    "buns" :> "Bakery" @@ "rice" :> "Pantry" @@
    "pasta" :> "Pantry" @@ "penne pasta" :> "Pantry" @@
    "spaghetti" :> "Pantry" @@ "flour" :> "Pantry" @@
    "sugar" :> "Pantry" @@ "salt" :> "Pantry" @@
    "black pepper" :> "Pantry" @@ "pepper" :> "Pantry" @@
    "olive oil" :> "Pantry" @@ "vegetable oil" :> "Pantry" @@
    "cooking oil" :> "Pantry" @@ "honey" :> "Pantry" @@
    "oats" :> "Pantry" @@ "rolled oats" :> "Pantry" @@
    "chia seeds" :> "Pantry" @@ "soy sauce" :> "Condiments" @@
    "ketchup" :> "Condiments" @@ "mustard" :> "Condiments" @@
    "mayonnaise" :> "Condiments" @@ "hot sauce" :> "Condiments" @@
    "kalamata olives" :> "Canned Goods" @@ "olives" :> "Canned Goods"

----------------------------------------------------------------------------
(* utils.py: string normalisation and unit conversion.                     *)

\* str.lower().strip() on the strings the model uses: the ones written with
\* capitals or surrounding blanks map to their lower-case trimmed form, every
\* other string of the model is already lower-case and trimmed.
LowerStrip(s) ==
    CASE s = "Flour "  -> "flour"
      [] s = "Garlic"  -> "garlic"
      [] s = "Cups"    -> "cups"
      [] s = " LB"     -> "lb"
      [] s = "Caesar dressing" -> "caesar dressing"
      [] OTHER         -> s

normalize_unit(unit) ==
    LET unit_lower == LowerStrip(unit)
    IN  IF unit_lower \in DOMAIN UNIT_ALIASES
        THEN UNIT_ALIASES[unit_lower]
        ELSE unit_lower

normalize_ingredient_name(name) == LowerStrip(name)

get_ingredient_category(ingredient_name) ==
    LET ingredient_lower == LowerStrip(ingredient_name)
    IN  IF ingredient_lower \in DOMAIN INGREDIENT_CATEGORIES
        THEN INGREDIENT_CATEGORIES[ingredient_lower]
        ELSE "Other"

can_convert_units(from_unit, to_unit) ==
    LET f == normalize_unit(from_unit)
        t == normalize_unit(to_unit)
    IN  \/ f = t
        \/ f \in DOMAIN VOLUME_TO_ML /\ t \in DOMAIN VOLUME_TO_ML
        \/ f \in DOMAIN WEIGHT_TO_G /\ t \in DOMAIN WEIGHT_TO_G

\* a conversion that hands back the quantity of an incompatible pair
convert_units_approximating(quantity, from_unit, to_unit) ==
    LET f == normalize_unit(from_unit)
        t == normalize_unit(to_unit)
    IN  IF f = t THEN [raised |-> FALSE, value |-> quantity]
        ELSE IF f \in DOMAIN VOLUME_TO_ML /\ t \in DOMAIN VOLUME_TO_ML
        THEN [raised |-> FALSE,
              value |-> RDiv(RMul(quantity, VOLUME_TO_ML[f]), VOLUME_TO_ML[t])]
        ELSE IF f \in DOMAIN WEIGHT_TO_G /\ t \in DOMAIN WEIGHT_TO_G
        THEN [raised |-> FALSE,
              value |-> RDiv(RMul(quantity, WEIGHT_TO_G[f]), WEIGHT_TO_G[t])]
        ELSE [raised |-> FALSE, value |-> quantity]

\* convert_units: raised is TRUE when the source raises ValueError, and value
\* is the quantity it returns otherwise
convert_units(quantity, from_unit, to_unit) ==
    LET f == normalize_unit(from_unit)
        t == normalize_unit(to_unit)
    IN  IF f = t THEN [raised |-> FALSE, value |-> quantity]
        ELSE IF f \in DOMAIN VOLUME_TO_ML /\ t \in DOMAIN VOLUME_TO_ML
        THEN [raised |-> FALSE,
              value |-> RDiv(RMul(quantity, VOLUME_TO_ML[f]), VOLUME_TO_ML[t])]
        ELSE IF f \in DOMAIN WEIGHT_TO_G /\ t \in DOMAIN WEIGHT_TO_G
        THEN [raised |-> FALSE,
              value |-> RDiv(RMul(quantity, WEIGHT_TO_G[f]), WEIGHT_TO_G[t])]
        ELSE [raised |-> TRUE, value |-> Zero]

----------------------------------------------------------------------------
(* grocery_generator.py: scaling, consolidation, pantry deduction, sort.   *)

\* the distinct elements of a sequence in first-seen order: the key order of
\* a Python dict filled in sequence order
RECURSIVE FirstSeen(_, _)
FirstSeen(seq, acc) ==
    IF seq = <<>> THEN acc
    ELSE IF \E i \in DOMAIN acc : acc[i] = Head(seq)
         THEN FirstSeen(Tail(seq), acc)
         ELSE FirstSeen(Tail(seq), Append(acc, Head(seq)))

RECURSIVE SumQuantity(_)
SumQuantity(seq) ==
    IF seq = <<>> THEN Zero ELSE RAdd(Head(seq).quantity, SumQuantity(Tail(seq)))

\* the scaled ingredients with the multiplier taken by integer division
RECURSIVE all_ingredients_floor(_)
all_ingredients_floor(meals) ==
    IF meals = <<>> THEN <<>>
    ELSE LET meal == Head(meals)
             recipe == meal.recipe
             serving_multiplier == <<meal.servings \div recipe.servings, 1>>
         IN  [i \in DOMAIN recipe.ingredients |->
                [name     |-> recipe.ingredients[i].ingredient_name,
                 quantity |-> RMul(recipe.ingredients[i].quantity, serving_multiplier),
                 unit     |-> recipe.ingredients[i].unit]]
             \o all_ingredients_floor(Tail(meals))

\* the flat list of scaled ingredients, one per (meal, ingredient) pair
RECURSIVE all_ingredients(_)
all_ingredients(meals) ==
    IF meals = <<>> THEN <<>>
    ELSE LET meal == Head(meals)
             recipe == meal.recipe
             serving_multiplier == Rat(meal.servings, recipe.servings)
         IN  [i \in DOMAIN recipe.ingredients |->
                [name     |-> recipe.ingredients[i].ingredient_name,
                 quantity |-> RMul(recipe.ingredients[i].quantity, serving_multiplier),
                 unit     |-> recipe.ingredients[i].unit]]
             \o all_ingredients(Tail(meals))

\* by_unit of one name group: the summed quantity per normalized unit, in the
\* order the units were first met
by_unit(ing_list) ==
    LET units == FirstSeen([i \in DOMAIN ing_list |-> normalize_unit(ing_list[i].unit)], <<>>)
    IN  [k \in DOMAIN units |->
           [unit     |-> units[k],
            quantity |-> SumQuantity(SelectSeq(ing_list,
                            LAMBDA ing : normalize_unit(ing.unit) = units[k]))]]

\* whether the loop folds other_unit into base_unit
folds_into(other_unit, base_unit) ==
    /\ can_convert_units(other_unit, base_unit)
    /\ ~convert_units(Zero, other_unit, base_unit).raised

RECURSIVE SumConverted(_, _)
SumConverted(entries, base_unit) ==
    IF entries = <<>> THEN Zero
    ELSE RAdd(convert_units(Head(entries).quantity, Head(entries).unit, base_unit).value,
              SumConverted(Tail(entries), base_unit))

\* the fold that adds every other unit's quantity to the first unit's,
\* whatever the units
fold_units_across(bu) ==
    IF Len(bu) > 1
    THEN <<[unit |-> bu[1].unit, quantity |-> SumQuantity(bu)]>>
    ELSE bu

\* the fold that adds the other units' quantities as they are
fold_units_unconverted(bu) ==
    IF Len(bu) > 1
    THEN LET base_unit == bu[1].unit
             others == Tail(bu)
             folded == SelectSeq(others, LAMBDA e : folds_into(e.unit, base_unit))
             kept == SelectSeq(others, LAMBDA e : ~folds_into(e.unit, base_unit))
         IN  <<[unit |-> base_unit,
                quantity |-> RAdd(bu[1].quantity, SumQuantity(folded))]>> \o kept
    ELSE bu

\* the units of one name group after the fold into the first unit
fold_units(bu) ==
    IF Len(bu) > 1
    THEN LET base_unit == bu[1].unit
             others == Tail(bu)
             folded == SelectSeq(others, LAMBDA e : folds_into(e.unit, base_unit))
             kept == SelectSeq(others, LAMBDA e : ~folds_into(e.unit, base_unit))
             consolidated_quantity == RAdd(bu[1].quantity, SumConverted(folded, base_unit))
         IN  <<[unit |-> base_unit, quantity |-> consolidated_quantity]>> \o kept
    ELSE bu

\* the GroceryItems of one name group, whatever the sign of the quantity
group_items_unfiltered(ingredients, normalized_name) ==
    LET ing_list == SelectSeq(ingredients,
                       LAMBDA ing : normalize_ingredient_name(ing.name) = normalized_name)
        display_name == ing_list[1].name
        category == get_ingredient_category(normalized_name)
        units == fold_units(by_unit(ing_list))
    IN  [k \in DOMAIN units |->
           [ingredient_name |-> display_name,
            quantity        |-> units[k].quantity,
            unit            |-> units[k].unit,
            category        |-> category]]

\* the GroceryItems of one name group, under the name of its last dict
group_items_last_name(ingredients, normalized_name) ==
    LET ing_list == SelectSeq(ingredients,
                       LAMBDA ing : normalize_ingredient_name(ing.name) = normalized_name)
        display_name == ing_list[Len(ing_list)].name
        category == get_ingredient_category(normalized_name)
        units == SelectSeq(fold_units(by_unit(ing_list)), LAMBDA e : RLt(Zero, e.quantity))
    IN  [k \in DOMAIN units |->
           [ingredient_name |-> display_name,
            quantity        |-> units[k].quantity,
            unit            |-> units[k].unit,
            category        |-> category]]

\* the GroceryItems of one name group
group_items(ingredients, normalized_name) ==
    LET ing_list == SelectSeq(ingredients,
                       LAMBDA ing : normalize_ingredient_name(ing.name) = normalized_name)
        display_name == ing_list[1].name
        category == get_ingredient_category(normalized_name)
        units == SelectSeq(fold_units(by_unit(ing_list)), LAMBDA e : RLt(Zero, e.quantity))
    IN  [k \in DOMAIN units |->
           [ingredient_name |-> display_name,
            quantity        |-> units[k].quantity,
            unit            |-> units[k].unit,
            category        |-> category]]

RECURSIVE ConcatGroups(_, _)
ConcatGroups(ingredients, names) ==
    IF names = <<>> THEN <<>>
    ELSE group_items(ingredients, Head(names)) \o ConcatGroups(ingredients, Tail(names))

consolidate_ingredients(ingredients) ==
    LET grouped == FirstSeen([i \in DOMAIN ingredients |->
                                normalize_ingredient_name(ingredients[i].name)], <<>>)
    IN  ConcatGroups(ingredients, grouped)

----------------------------------------------------------------------------
(* database.py: the tables.  A database value is a record of its tables:   *)
(*   ingredients        the names of the ingredients rows (name is UNIQUE) *)
(*   pantry             the pantry rows in rowid order; a row's ingredient *)
(*                      is given by its name, and (name, unit) is UNIQUE   *)
(*   recipes, recipe_ingredients, dietary_tags, current_meal_plan          *)
(*   next_recipe_id     the AUTOINCREMENT counter of recipes               *)

EmptyDb ==
    [ingredients        |-> {},
     pantry             |-> <<>>,
     recipes            |-> {},
     recipe_ingredients |-> <<>>,
     dietary_tags       |-> <<>>,
     current_meal_plan  |-> <<>>,
     next_recipe_id     |-> 1]

----------------------------------------------------------------------------
(* recipe_manager.py and pantry_manager.py: the operations on the tables.  *)

\* _get_or_create_ingredient: the connection's tables after it, and whether
\* it committed (it commits when it inserts)
_get_or_create_ingredient(t, ingredient_name) ==
    LET normalized_name == normalize_ingredient_name(ingredient_name)
    IN  IF normalized_name \in t.ingredients
        THEN [tables |-> t, committed |-> FALSE]
        ELSE [tables    |-> [t EXCEPT !.ingredients = @ \cup {normalized_name}],
              committed |-> TRUE]

\* the normalized ingredient names of the model in ORDER BY order
NameOrder == <<"chicken breast", "flour", "garlic", "saffron">>

RECURSIVE OrderByName(_, _)
OrderByName(rows, k) ==
    IF k > Len(NameOrder) THEN <<>>
    ELSE SelectSeq(rows, LAMBDA r : r.name = NameOrder[k]) \o OrderByName(rows, k + 1)

\* get_pantry_items: the PantryItems of the pantry rows, ORDER BY i.name
get_pantry_items(pantry) ==
    LET rows == OrderByName(pantry, 1)
    IN  [i \in DOMAIN rows |->
           [ingredient_name |-> rows[i].name,
            quantity        |-> rows[i].quantity,
            unit            |-> rows[i].unit]]

\* the position of the pantry row of (name, unit), 0 when there is none
pantry_row(pantry, name, unit) ==
    IF \E i \in DOMAIN pantry : pantry[i].name = name /\ pantry[i].unit = unit
    THEN CHOOSE i \in DOMAIN pantry : pantry[i].name = name /\ pantry[i].unit = unit
    ELSE 0

\* DELETE FROM pantry WHERE id = the row of (name, unit)
delete_pantry_row(pantry, name, unit) ==
    SelectSeq(pantry, LAMBDA r : ~(r.name = name /\ r.unit = unit))

\* UPDATE pantry SET quantity = ? WHERE id = the row of (name, unit)
update_pantry_row(pantry, name, unit, quantity) ==
    [i \in DOMAIN pantry |->
       IF pantry[i].name = name /\ pantry[i].unit = unit
       THEN [pantry[i] EXCEPT !.quantity = quantity]
       ELSE pantry[i]]

\* an add_pantry_item that inserts a row without looking for the row of the
\* same ingredient and unit
upsert_pantry_appending(pantry, normalized_name, normalized_unit, quantity) ==
    Append(pantry, [name     |-> normalized_name,
                    quantity |-> quantity,
                    unit     |-> normalized_unit])

\* add_pantry_item, lines 41-66: add to the row of the same ingredient and
\* unit, or insert a new row
upsert_pantry(pantry, normalized_name, normalized_unit, quantity) ==
    LET existing == pantry_row(pantry, normalized_name, normalized_unit)
    IN  IF existing # 0
        THEN update_pantry_row(pantry, normalized_name, normalized_unit,
                               RAdd(pantry[existing].quantity, quantity))
        ELSE Append(pantry, [name     |-> normalized_name,
                             quantity |-> quantity,
                             unit     |-> normalized_unit])

\* add_pantry_item when nothing fails: the database after it
add_pantry_item(d, item) ==
    LET normalized_name == normalize_ingredient_name(item.ingredient_name)
        normalized_unit == normalize_unit(item.unit)
        t == _get_or_create_ingredient(d, normalized_name).tables
    IN  [t EXCEPT !.pantry = upsert_pantry(@, normalized_name, normalized_unit,
                                           item.quantity)]

\* one turn of the loop that computes the deduction and writes no row
deduct_row_reading(pantry, normalized_name, normalized_unit, remaining_needed, fetched) ==
    LET pantry_qty == fetched.quantity
        pantry_unit == fetched.unit
        converted == convert_units(pantry_qty, pantry_unit, normalized_unit)
        skipped == /\ pantry_unit # normalized_unit
                   /\ \/ ~can_convert_units(pantry_unit, normalized_unit)
                      \/ converted.raised
        usable_qty == IF pantry_unit # normalized_unit THEN converted.value ELSE pantry_qty
        deduction == RMin(remaining_needed, usable_qty)
    IN  IF skipped
        THEN [pantry |-> pantry, remaining_needed |-> remaining_needed]
        ELSE [pantry |-> pantry,
              remaining_needed |-> RSub(remaining_needed, deduction)]

\* deduct_from_pantry, one turn of the loop over the fetched rows (lines
\* 274-313) for the fetched row (pantry_qty, pantry_unit) of the ingredient:
\* the pantry table and remaining_needed after it
deduct_row(pantry, normalized_name, normalized_unit, remaining_needed, fetched) ==
    LET pantry_qty == fetched.quantity
        pantry_unit == fetched.unit
        converted == convert_units(pantry_qty, pantry_unit, normalized_unit)
        skipped == /\ pantry_unit # normalized_unit
                   /\ \/ ~can_convert_units(pantry_unit, normalized_unit)
                      \/ converted.raised
        usable_qty == IF pantry_unit # normalized_unit THEN converted.value ELSE pantry_qty
        deduction == RMin(remaining_needed, usable_qty)
        new_pantry_qty ==
            IF pantry_unit = normalized_unit
            THEN RSub(pantry_qty, deduction)
            ELSE RSub(pantry_qty, convert_units(deduction, normalized_unit, pantry_unit).value)
    IN  IF skipped
        THEN [pantry |-> pantry, remaining_needed |-> remaining_needed]
        ELSE [pantry |-> IF RLe(new_pantry_qty, Zero)
                         THEN delete_pantry_row(pantry, normalized_name, pantry_unit)
                         ELSE update_pantry_row(pantry, normalized_name, pantry_unit,
                                                new_pantry_qty),
              remaining_needed |-> RSub(remaining_needed, deduction)]

\* the loop of deduct_from_pantry over the fetched rows, to its end
RECURSIVE deduct_rows(_, _, _, _, _)
deduct_rows(pantry, normalized_name, normalized_unit, remaining_needed, fetched) ==
    IF fetched = <<>> \/ RLe(remaining_needed, Zero)
    THEN [pantry |-> pantry, remaining_needed |-> remaining_needed]
    ELSE LET r == deduct_row(pantry, normalized_name, normalized_unit,
                             remaining_needed, Head(fetched))
         IN  deduct_rows(r.pantry, normalized_name, normalized_unit,
                         r.remaining_needed, Tail(fetched))

\* the rows deduct_from_pantry fetches: the pantry rows of the ingredient
fetch_pantry_rows(t, normalized_name) ==
    IF normalized_name \in t.ingredients
    THEN SelectSeq(t.pantry, LAMBDA r : r.name = normalized_name)
    ELSE <<>>

\* deduct_from_pantry when nothing fails: the database after it and the
\* value it returns
deduct_from_pantry(d, ingredient_name, quantity, unit) ==
    LET normalized_name == normalize_ingredient_name(ingredient_name)
        normalized_unit == normalize_unit(unit)
        pantry_items == fetch_pantry_rows(d, normalized_name)
        r == deduct_rows(d.pantry, normalized_name, normalized_unit, quantity, pantry_items)
    IN  IF pantry_items = <<>>
        THEN [db |-> d, value |-> quantity]
        ELSE [db    |-> [d EXCEPT !.pantry = r.pantry],
              value |-> RMax(Zero, r.remaining_needed)]

\* the threshold below which a remaining need is dropped
THRESHOLD == <<1, 100>>

\* the loop with the pantry quantity taken as it is, in the pantry row's unit
RECURSIVE remaining_after_unconverted(_, _, _)
remaining_after_unconverted(remaining_needed, grocery_unit, pantry_entries) ==
    IF pantry_entries = <<>> \/ RLe(remaining_needed, Zero)
    THEN remaining_needed
    ELSE LET pantry_item == Head(pantry_entries)
             skipped == /\ pantry_item.unit # grocery_unit
                        /\ ~can_convert_units(pantry_item.unit, grocery_unit)
             deduction == RMin(remaining_needed, pantry_item.quantity)
         IN  IF skipped
             THEN remaining_after_unconverted(remaining_needed, grocery_unit,
                                              Tail(pantry_entries))
             ELSE remaining_after_unconverted(RSub(remaining_needed, deduction),
                                              grocery_unit, Tail(pantry_entries))

\* the loop that stops after the first pantry row it can use
RECURSIVE remaining_after_first_row(_, _, _)
remaining_after_first_row(remaining_needed, grocery_unit, pantry_entries) ==
    IF pantry_entries = <<>> \/ RLe(remaining_needed, Zero)
    THEN remaining_needed
    ELSE LET pantry_item == Head(pantry_entries)
             converted == convert_units(pantry_item.quantity, pantry_item.unit, grocery_unit)
             skipped == /\ pantry_item.unit # grocery_unit
                        /\ \/ ~can_convert_units(pantry_item.unit, grocery_unit)
                           \/ converted.raised
             pantry_qty == IF pantry_item.unit # grocery_unit
                           THEN converted.value
                           ELSE pantry_item.quantity
         IN  IF skipped
             THEN remaining_after_first_row(remaining_needed, grocery_unit,
                                            Tail(pantry_entries))
             ELSE RSub(remaining_needed, RMin(remaining_needed, pantry_qty))

\* the inner loop over one ingredient's pantry rows: what is still needed
\* after them
RECURSIVE remaining_after(_, _, _)
remaining_after(remaining_needed, grocery_unit, pantry_entries) ==
    IF pantry_entries = <<>> \/ RLe(remaining_needed, Zero)
    THEN remaining_needed
    ELSE LET pantry_item == Head(pantry_entries)
             converted == convert_units(pantry_item.quantity, pantry_item.unit, grocery_unit)
             skipped == /\ pantry_item.unit # grocery_unit
                        /\ \/ ~can_convert_units(pantry_item.unit, grocery_unit)
                           \/ converted.raised
             pantry_qty == IF pantry_item.unit # grocery_unit
                           THEN converted.value
                           ELSE pantry_item.quantity
             deduction == RMin(remaining_needed, pantry_qty)
         IN  IF skipped
             THEN remaining_after(remaining_needed, grocery_unit, Tail(pantry_entries))
             ELSE remaining_after(RSub(remaining_needed, deduction), grocery_unit,
                                  Tail(pantry_entries))

\* pantry_map[normalized]: the pantry rows of one normalized name, in order
pantry_map(pantry_items, normalized) ==
    SelectSeq(pantry_items,
              LAMBDA item : normalize_ingredient_name(item.ingredient_name) = normalized)

\* the item emitted whenever anything at all is still needed
deducted_item_no_threshold(grocery_item, pantry_items) ==
    LET normalized == normalize_ingredient_name(grocery_item.ingredient_name)
        pantry_entries == pantry_map(pantry_items, normalized)
        remaining_needed == remaining_after(grocery_item.quantity, grocery_item.unit,
                                            pantry_entries)
    IN  IF pantry_entries # <<>>
        THEN IF RLt(Zero, remaining_needed)
             THEN <<[grocery_item EXCEPT !.quantity = remaining_needed]>>
             ELSE <<>>
        ELSE <<grocery_item>>

\* a fully covered item emitted with what is left of it
deducted_item_always(grocery_item, pantry_items) ==
    LET normalized == normalize_ingredient_name(grocery_item.ingredient_name)
        pantry_entries == pantry_map(pantry_items, normalized)
    IN  <<[grocery_item EXCEPT !.quantity =
             remaining_after(grocery_item.quantity, grocery_item.unit, pantry_entries)]>>

\* what one grocery item contributes to updated_items
deducted_item(grocery_item, pantry_items) ==
    LET normalized == normalize_ingredient_name(grocery_item.ingredient_name)
        pantry_entries == pantry_map(pantry_items, normalized)
        remaining_needed == remaining_after(grocery_item.quantity, grocery_item.unit,
                                            pantry_entries)
    IN  IF pantry_entries # <<>>
        THEN IF RLt(THRESHOLD, remaining_needed)
             THEN <<[ingredient_name |-> grocery_item.ingredient_name,
                     quantity        |-> remaining_needed,
                     unit            |-> grocery_item.unit,
                     category        |-> grocery_item.category]>>
             ELSE <<>>
        ELSE <<grocery_item>>

RECURSIVE updated_items(_, _)
updated_items(grocery_items, pantry_items) ==
    IF grocery_items = <<>> THEN <<>>
    ELSE deducted_item(Head(grocery_items), pantry_items)
         \o updated_items(Tail(grocery_items), pantry_items)

\* the deduction made through deduct_from_pantry, which writes the pantry
RECURSIVE deduct_each(_, _)
deduct_each(grocery_items, d) ==
    IF grocery_items = <<>> THEN d
    ELSE deduct_each(Tail(grocery_items),
                     deduct_from_pantry(d, Head(grocery_items).ingredient_name,
                                        Head(grocery_items).quantity,
                                        Head(grocery_items).unit).db)

_deduct_pantry_from_list_writing(grocery_items, pantry) ==
    LET pantry_items == get_pantry_items(pantry)
        d == [EmptyDb EXCEPT !.pantry = pantry,
                             !.ingredients = {pantry[i].name : i \in DOMAIN pantry}]
    IN  [items  |-> IF pantry_items = <<>>
                    THEN grocery_items
                    ELSE updated_items(grocery_items, pantry_items),
         pantry |-> deduct_each(grocery_items, d).pantry]

\* a deduction that also lists every pantry row as an item
_deduct_pantry_from_list_listing(grocery_items, pantry) ==
    LET pantry_items == get_pantry_items(pantry)
    IN  [items  |-> (IF pantry_items = <<>>
                     THEN grocery_items
                     ELSE updated_items(grocery_items, pantry_items))
                    \o [i \in DOMAIN pantry_items |->
                          [ingredient_name |-> pantry_items[i].ingredient_name,
                           quantity        |-> pantry_items[i].quantity,
                           unit            |-> pantry_items[i].unit,
                           category        |-> get_ingredient_category(
                                                   pantry_items[i].ingredient_name)]],
         pantry |-> pantry]

\* _deduct_pantry_from_list: the list it returns and the pantry table it
\* leaves (it only reads the table)
_deduct_pantry_from_list(grocery_items, pantry) ==
    LET pantry_items == get_pantry_items(pantry)
    IN  [items  |-> IF pantry_items = <<>>
                    THEN grocery_items
                    ELSE updated_items(grocery_items, pantry_items),
         pantry |-> pantry]

category_order ==
    <<"Produce", "Meat & Seafood", "Dairy & Eggs", "Bakery", "Pantry",
      "Canned Goods", "Condiments", "Frozen", "Other">>

\* a key that puts the categories missing from category_order first
sort_key_unnamed_first(item) ==
    IF \E i \in DOMAIN category_order : category_order[i] = item.category
    THEN (CHOOSE i \in DOMAIN category_order : category_order[i] = item.category) - 1
    ELSE 0

sort_key(item) ==
    IF \E i \in DOMAIN category_order : category_order[i] = item.category
    THEN (CHOOSE i \in DOMAIN category_order : category_order[i] = item.category) - 1
    ELSE Len(category_order)

\* a sort that reverses the items of equal key
RECURSIVE SortFromReversing(_, _)
SortFromReversing(items, key) ==
    IF key > Len(category_order) THEN <<>>
    ELSE LET same == SelectSeq(items, LAMBDA item : sort_key(item) = key)
         IN  [i \in DOMAIN same |-> same[Len(same) + 1 - i]]
             \o SortFromReversing(items, key + 1)

\* list.sort(key=sort_key): a stable sort, so the items of each key keep
\* their order and the keys ascend
RECURSIVE SortFrom(_, _)
SortFrom(items, key) ==
    IF key > Len(category_order) THEN <<>>
    ELSE SelectSeq(items, LAMBDA item : sort_key(item) = key) \o SortFrom(items, key + 1)

\* generate_grocery_list: the list it returns and the pantry table it leaves
generate_grocery_list(meal_plan, deduct_pantry, pantry) ==
    LET consolidated == consolidate_ingredients(all_ingredients(meal_plan.meals))
        deducted == IF deduct_pantry
                    THEN _deduct_pantry_from_list(consolidated, pantry)
                    ELSE [items |-> consolidated, pantry |-> pantry]
    IN  [items  |-> SortFrom(deducted.items, 0),
         pantry |-> deducted.pantry]

----------------------------------------------------------------------------
(* The inputs of the model.                                                *)

MaxMeals == 2
MaxCalls == 2

\* Recipe objects as generate_grocery_list receives them
RecipeA ==
    [name |-> "A", meal_type |-> "dinner", servings |-> 4,
     ingredients |->
       <<[ingredient_name |-> "flour",  quantity |-> <<1, 1>>, unit |-> "cup"],
         [ingredient_name |-> "garlic", quantity |-> <<2, 1>>, unit |-> "cloves"],
         [ingredient_name |-> "chicken breast", quantity |-> <<1, 2>>, unit |-> " LB"],
         [ingredient_name |-> "saffron", quantity |-> <<1, 25>>, unit |-> "tsp"]>>]

RecipeB ==
    [name |-> "B", meal_type |-> "dinner", servings |-> 2,
     ingredients |->
       <<[ingredient_name |-> "Flour ", quantity |-> <<2, 1>>, unit |-> "tablespoons"],
         [ingredient_name |-> "Garlic", quantity |-> <<1, 1>>, unit |-> "tbsp"],
         [ingredient_name |-> "garlic", quantity |-> <<1, 1>>, unit |-> "tsp"],
         [ingredient_name |-> "chicken breast", quantity |-> <<8, 1>>, unit |-> "oz"]>>]

Recipes == {RecipeA, RecipeB}

ServingsChoices == {1, 2}

\* the MealPlan objects of at most MaxMeals meals
MealPlans ==
    LET Slots == [recipe : Recipes, servings : ServingsChoices]
        Choices == UNION {[1..k -> Slots] : k \in 0..MaxMeals}
    IN  {[meals |-> [i \in DOMAIN c |->
                       [day_number |-> i,
                        meal_type  |-> c[i].recipe.meal_type,
                        recipe     |-> c[i].recipe,
                        servings   |-> c[i].servings]],
          days  |-> Len(c)] : c \in Choices}

\* the PantryItems add_pantry_item is called with
PantryInputs ==
    {[ingredient_name |-> "flour",   quantity |-> <<2, 1>>,   unit |-> "tablespoons"],
     [ingredient_name |-> "Flour ",  quantity |-> <<1, 4>>,   unit |-> "Cups"],
     [ingredient_name |-> "Garlic",  quantity |-> <<1, 1>>,   unit |-> "tsp"],
     [ingredient_name |-> "saffron", quantity |-> <<1, 200>>, unit |-> "tsp"]}

----------------------------------------------------------------------------
(* The state.                                                              *)
(*   db        the committed database                                      *)
(*   tx        the tables as the open connection sees them (db plus its    *)
(*             uncommitted writes; equal to db when no call is running)    *)
(*   call      the call in progress, Idle when none                        *)
(*   outcome   what the last finished call returned or raised              *)
(*   pre       the committed database when the last call began             *)
(*   mealPlan  the MealPlan object handed to generate_grocery_list         *)
(*   ncalls    the number of mutating calls made so far                    *)

VARIABLES db, tx, call, outcome, pre, mealPlan, ncalls

vars == <<db, tx, call, outcome, pre, mealPlan, ncalls>>

Idle == [op |-> "idle"]

Init ==
    /\ db = EmptyDb
    /\ tx = EmptyDb
    /\ call = Idle
    /\ outcome = [op |-> "none"]
    /\ pre = EmptyDb
    /\ mealPlan \in MealPlans
    /\ ncalls = 0

----------------------------------------------------------------------------
(* The grocery list and the pantry it reads.                               *)

\* add_pantry_item(item): the check of the quantity (lines 28-29), and the
\* rest run to its end without a failure
AddPantryItem(item) ==
    /\ call = Idle
    /\ ncalls < MaxCalls
    /\ IF RLt(Zero, item.quantity)
       THEN /\ db' = add_pantry_item(db, item)
            /\ outcome' = [op |-> "add_pantry_item", status |-> "ok"]
       ELSE /\ db' = db
            /\ outcome' = [op |-> "add_pantry_item", status |-> "raised",
                           error |-> "ValueError", args |-> item]
    /\ tx' = db'
    /\ pre' = db
    /\ ncalls' = ncalls + 1
    /\ UNCHANGED <<call, mealPlan>>

\* generate_grocery_list(mealPlan, deduct_pantry)
GenerateGroceryList(deduct_pantry) ==
    /\ call = Idle
    /\ LET r == generate_grocery_list(mealPlan, deduct_pantry, db.pantry)
       IN  /\ db' = [db EXCEPT !.pantry = r.pantry]
           /\ outcome' = [op            |-> "generate_grocery_list",
                          deduct_pantry |-> deduct_pantry,
                          status        |-> "ok",
                          value         |-> r.items]
    /\ tx' = db'
    /\ pre' = db
    /\ UNCHANGED <<call, mealPlan, ncalls>>

Next ==
    \/ \E item \in PantryInputs : AddPantryItem(item)
    \/ \E deduct_pantry \in BOOLEAN : GenerateGroceryList(deduct_pantry)

Spec == Init /\ [][Next]_vars


----------------------------------------------------------------------------
(* The pantry store: deduct_from_pantry statement by statement.  While a   *)
(* call runs, call holds its arguments and locals, and writes counts the   *)
(* UPDATE and DELETE statements it has executed.                           *)

MaxDeducts == 1

\* the PantryItems the pantry is stocked with
PantryStock ==
    {[ingredient_name |-> "flour",  quantity |-> <<2, 1>>, unit |-> "cup"],
     [ingredient_name |-> "Flour ", quantity |-> <<2, 1>>, unit |-> "tablespoons"],
     [ingredient_name |-> "flour",  quantity |-> <<1, 1>>, unit |-> " LB"],
     [ingredient_name |-> "Garlic", quantity |-> <<1, 1>>, unit |-> "tsp"]}

\* the arguments deduct_from_pantry is called with
DeductInputs ==
    {[ingredient_name |-> "flour",  quantity |-> <<1, 2>>, unit |-> "cup"],
     [ingredient_name |-> "Flour ", quantity |-> <<3, 1>>, unit |-> "Cups"],
     [ingredient_name |-> "Garlic", quantity |-> <<1, 1>>, unit |-> "tbsp"],
     [ingredient_name |-> "flour",  quantity |-> <<-1, 1>>, unit |-> "cup"],
     [ingredient_name |-> "Garlic", quantity |-> <<0, 1>>, unit |-> "tsp"]}

\* the database of the store specifications starts as Init's, with no plan
\* object in hand
InitStore ==
    /\ Init
    /\ mealPlan = [meals |-> <<>>, days |-> 0]

\* one turn of the loop on the open connection that commits its write at
\* once
deduct_turn_autocommit(d, t, c) ==
    LET r == deduct_row(t.pantry, c.normalized_name, c.normalized_unit,
                        c.remaining_needed, Head(c.pantry_items))
        after == [t EXCEPT !.pantry = r.pantry]
    IN  [db   |-> after,
         tx   |-> after,
         call |-> [c EXCEPT !.remaining_needed = r.remaining_needed,
                            !.pantry_items = Tail(@),
                            !.writes = IF r.pantry # t.pantry THEN @ + 1 ELSE @]]

\* one turn of the loop (lines 274-313) on the open connection: the
\* committed tables, the connection's tables and the call after it
deduct_turn(d, t, c) ==
    LET r == deduct_row(t.pantry, c.normalized_name, c.normalized_unit,
                        c.remaining_needed, Head(c.pantry_items))
    IN  [db   |-> d,
         tx   |-> [t EXCEPT !.pantry = r.pantry],
         call |-> [c EXCEPT !.remaining_needed = r.remaining_needed,
                            !.pantry_items = Tail(@),
                            !.writes = IF r.pantry # t.pantry THEN @ + 1 ELSE @]]

\* deduct_from_pantry(ingredient_name, quantity, unit), lines 252-272: the
\* SELECT; with no row of the ingredient it returns quantity at once
DeductFromPantry(args) ==
    /\ call = Idle
    /\ ncalls < MaxCalls + MaxDeducts
    /\ LET normalized_name == normalize_ingredient_name(args.ingredient_name)
           normalized_unit == normalize_unit(args.unit)
           pantry_items == fetch_pantry_rows(tx, normalized_name)
       IN  IF pantry_items = <<>>
           THEN /\ call' = Idle
                /\ outcome' = [op |-> "deduct_from_pantry", args |-> args,
                               status |-> "ok", value |-> args.quantity,
                               writes |-> 0]
           ELSE /\ call' = [op               |-> "deduct_from_pantry",
                            args             |-> args,
                            normalized_name  |-> normalized_name,
                            normalized_unit  |-> normalized_unit,
                            remaining_needed |-> args.quantity,
                            pantry_items     |-> pantry_items,
                            writes           |-> 0]
                /\ UNCHANGED outcome
    /\ pre' = db
    /\ ncalls' = ncalls + 1
    /\ UNCHANGED <<db, tx, mealPlan>>

\* lines 274-313: the next fetched row
DeductLoop ==
    /\ call.op = "deduct_from_pantry"
    /\ call.pantry_items # <<>>
    /\ ~RLe(call.remaining_needed, Zero)
    /\ LET r == deduct_turn(db, tx, call)
       IN  /\ db' = r.db
           /\ tx' = r.tx
           /\ call' = r.call
    /\ UNCHANGED <<outcome, pre, mealPlan, ncalls>>

\* lines 315-316: the loop is over; commit and return
DeductCommit ==
    /\ call.op = "deduct_from_pantry"
    /\ call.pantry_items = <<>> \/ RLe(call.remaining_needed, Zero)
    /\ db' = tx
    /\ tx' = tx
    /\ outcome' = [op |-> "deduct_from_pantry", args |-> call.args,
                   status |-> "ok", value |-> RMax(Zero, call.remaining_needed),
                   writes |-> call.writes]
    /\ call' = Idle
    /\ UNCHANGED <<pre, mealPlan, ncalls>>

\* lines 318-320: a statement of the call raises; roll back and re-raise
DeductRaises ==
    /\ call.op = "deduct_from_pantry"
    /\ tx' = db
    /\ outcome' = [op |-> "deduct_from_pantry", args |-> call.args,
                   status |-> "raised", writes |-> call.writes]
    /\ call' = Idle
    /\ UNCHANGED <<db, pre, mealPlan, ncalls>>

NextPantry ==
    \/ \E item \in PantryStock : AddPantryItem(item)
    \/ \E args \in DeductInputs : DeductFromPantry(args)
    \/ DeductLoop
    \/ DeductCommit
    \/ DeductRaises

SpecPantry == InitStore /\ [][NextPantry]_vars

----------------------------------------------------------------------------
(* The recipe store: add_recipe, update_recipe and add_pantry_item         *)
(* statement by statement on one connection.                               *)

\* Recipe objects handed to add_recipe and update_recipe
RecipeX ==
    [name |-> "X", meal_type |-> "dinner", servings |-> 2,
     ingredients |->
       <<[ingredient_name |-> "saffron", quantity |-> <<1, 1>>, unit |-> "tsp"]>>,
     dietary_tags |-> <<"vegan", "vegan">>]

RecipeY ==
    [name |-> "Y", meal_type |-> "dinner", servings |-> 2,
     ingredients |->
       <<[ingredient_name |-> "flour",  quantity |-> <<1, 1>>, unit |-> "cup"],
         [ingredient_name |-> "Garlic", quantity |-> <<1, 1>>, unit |-> "tsp"]>>,
     dietary_tags |-> <<"vegan">>]

RecipeZ ==
    [name |-> "Z", meal_type |-> "lunch", servings |-> 0,
     ingredients |->
       <<[ingredient_name |-> "flour", quantity |-> <<1, 1>>, unit |-> "cup"]>>,
     dietary_tags |-> <<>>]

RecipeInputs == {RecipeX, RecipeY, RecipeZ}

\* the names update_recipe is called with
RecipeNames == {"X", "y"}

\* SQL LOWER() on the recipe names of the model
LOWER(s) ==
    CASE s = "X" -> "x"
      [] s = "Y" -> "y"
      [] s = "Z" -> "z"
      [] s = "Scrambled Eggs with Toast" -> "scrambled eggs with toast"
      [] s = "Oatmeal with Berries" -> "oatmeal with berries"
      [] s = "Grilled Cheese Sandwich" -> "grilled cheese sandwich"
      [] s = "Chicken Caesar Salad" -> "chicken caesar salad"
      [] s = "Spaghetti with Marinara" -> "spaghetti with marinara"
      [] s = "Baked Chicken with Vegetables" -> "baked chicken with vegetables"
      [] s = "Fruit Smoothie" -> "fruit smoothie"
      [] s = "Hummus with Veggies" -> "hummus with veggies"
      [] OTHER   -> s

\* SELECT id FROM recipes WHERE LOWER(name) = LOWER(?)
recipes_named(t, name) == {r \in t.recipes : LOWER(r.name) = LOWER(name)}

\* INSERT INTO recipes
insert_recipe(t, recipe) ==
    [t EXCEPT !.recipes = @ \cup {[id        |-> t.next_recipe_id,
                                   name      |-> recipe.name,
                                   meal_type |-> recipe.meal_type,
                                   servings  |-> recipe.servings]},
              !.next_recipe_id = @ + 1]

\* UPDATE recipes SET ... WHERE id = ?, then DELETE the recipe's ingredient
\* links and tags (update_recipe, lines 282-300)
replace_recipe(t, recipe_id, updated_recipe) ==
    [t EXCEPT !.recipes = {IF r.id = recipe_id
                           THEN [id        |-> recipe_id,
                                 name      |-> updated_recipe.name,
                                 meal_type |-> updated_recipe.meal_type,
                                 servings  |-> updated_recipe.servings]
                           ELSE r : r \in @},
              !.recipe_ingredients = SelectSeq(@, LAMBDA l : l.recipe_id # recipe_id),
              !.dietary_tags = SelectSeq(@, LAMBDA g : g.recipe_id # recipe_id)]

\* one turn of the ingredient loop (add_recipe 91-97, update_recipe 303-309)
\* on the open connection: _get_or_create_ingredient, which commits the
\* connection's pending writes when it inserts, then the INSERT of the link
insert_recipe_ingredient(d, t, recipe_id, ing) ==
    LET g == _get_or_create_ingredient(t, ing.ingredient_name)
        link == [recipe_id |-> recipe_id,
                 name      |-> normalize_ingredient_name(ing.ingredient_name),
                 quantity  |-> ing.quantity,
                 unit      |-> ing.unit]
    IN  [db |-> IF g.committed THEN g.tables ELSE d,
         tx |-> [g.tables EXCEPT !.recipe_ingredients = Append(@, link)]]

\* UNIQUE(recipe_id, tag) of dietary_tags
tag_exists(t, recipe_id, tag) ==
    \E i \in DOMAIN t.dietary_tags :
        t.dietary_tags[i] = [recipe_id |-> recipe_id, tag |-> tag]

\* add_recipe(recipe), lines 57-88
AddRecipe(recipe) ==
    /\ call = Idle
    /\ ncalls < MaxCalls
    /\ pre' = db
    /\ ncalls' = ncalls + 1
    /\ IF \/ recipe.name = ""
          \/ recipe.ingredients = <<>>
          \/ recipe.servings <= 0
          \/ recipes_named(tx, recipe.name) # {}
       THEN /\ outcome' = [op |-> "add_recipe", status |-> "raised",
                           error |-> "ValueError", writes |-> 0]
            /\ UNCHANGED <<tx, call>>
       ELSE /\ tx' = insert_recipe(tx, recipe)
            /\ call' = [op           |-> "add_recipe",
                        recipe_id    |-> tx.next_recipe_id,
                        ingredients  |-> recipe.ingredients,
                        dietary_tags |-> recipe.dietary_tags,
                        writes       |-> 1]
            /\ UNCHANGED outcome
    /\ UNCHANGED <<db, mealPlan>>

\* update_recipe(name, updated_recipe), lines 256-300
UpdateRecipe(name, updated_recipe) ==
    /\ call = Idle
    /\ ncalls < MaxCalls
    /\ pre' = db
    /\ ncalls' = ncalls + 1
    /\ IF updated_recipe.name = "" \/ updated_recipe.ingredients = <<>>
       THEN /\ outcome' = [op |-> "update_recipe", status |-> "raised",
                           error |-> "ValueError", writes |-> 0]
            /\ UNCHANGED <<tx, call>>
       ELSE IF recipes_named(tx, name) = {}
       THEN /\ outcome' = [op |-> "update_recipe", status |-> "ok",
                           value |-> FALSE, writes |-> 0]
            /\ UNCHANGED <<tx, call>>
       ELSE IF /\ LOWER(name) # LOWER(updated_recipe.name)
               /\ recipes_named(tx, updated_recipe.name) # {}
       THEN /\ outcome' = [op |-> "update_recipe", status |-> "raised",
                           error |-> "ValueError", writes |-> 0]
            /\ UNCHANGED <<tx, call>>
       ELSE LET recipe_id == (CHOOSE r \in recipes_named(tx, name) : TRUE).id
            IN  /\ tx' = replace_recipe(tx, recipe_id, updated_recipe)
                /\ call' = [op           |-> "update_recipe",
                            recipe_id    |-> recipe_id,
                            ingredients  |-> updated_recipe.ingredients,
                            dietary_tags |-> updated_recipe.dietary_tags,
                            writes       |-> 3]
                /\ UNCHANGED outcome
    /\ UNCHANGED <<db, mealPlan>>

\* the ingredient loop of add_recipe (91-97) and update_recipe (303-309):
\* the next ingredient
InsertRecipeIngredient ==
    /\ call.op \in {"add_recipe", "update_recipe"}
    /\ call.ingredients # <<>>
    /\ LET r == insert_recipe_ingredient(db, tx, call.recipe_id, Head(call.ingredients))
       IN  /\ db' = r.db
           /\ tx' = r.tx
    /\ call' = [call EXCEPT !.ingredients = Tail(@), !.writes = @ + 1]
    /\ UNCHANGED <<outcome, pre, mealPlan, ncalls>>

\* the tag loop of add_recipe (100-104) and update_recipe (312-316): the
\* next tag; a tag the recipe already has violates UNIQUE(recipe_id, tag),
\* the statement raises IntegrityError and the handler rolls back
InsertDietaryTag ==
    /\ call.op \in {"add_recipe", "update_recipe"}
    /\ call.ingredients = <<>>
    /\ call.dietary_tags # <<>>
    /\ IF tag_exists(tx, call.recipe_id, Head(call.dietary_tags))
       THEN /\ tx' = db
            /\ outcome' = [op |-> call.op, status |-> "raised",
                           error |-> "IntegrityError", writes |-> call.writes]
            /\ call' = Idle
       ELSE /\ tx' = [tx EXCEPT !.dietary_tags =
                         Append(@, [recipe_id |-> call.recipe_id,
                                    tag       |-> Head(call.dietary_tags)])]
            /\ call' = [call EXCEPT !.dietary_tags = Tail(@), !.writes = @ + 1]
            /\ UNCHANGED outcome
    /\ UNCHANGED <<db, pre, mealPlan, ncalls>>

\* add_recipe 106-107, update_recipe 318-319: commit and return
CommitRecipe ==
    /\ call.op \in {"add_recipe", "update_recipe"}
    /\ call.ingredients = <<>>
    /\ call.dietary_tags = <<>>
    /\ db' = tx
    /\ tx' = tx
    /\ outcome' = [op |-> call.op, status |-> "ok",
                   value |-> IF call.op = "add_recipe" THEN call.recipe_id ELSE TRUE,
                   writes |-> call.writes]
    /\ call' = Idle
    /\ UNCHANGED <<pre, mealPlan, ncalls>>

\* add_recipe 109-111, update_recipe 321-323: a statement of the call raises
\* sqlite3.Error; roll back and re-raise
RecipeRaises ==
    /\ call.op \in {"add_recipe", "update_recipe"}
    /\ tx' = db
    /\ outcome' = [op |-> call.op, status |-> "raised",
                   error |-> "sqlite3.Error", writes |-> call.writes]
    /\ call' = Idle
    /\ UNCHANGED <<db, pre, mealPlan, ncalls>>

\* add_pantry_item(item), lines 28-39: the quantity check, then
\* _get_or_create_ingredient on the new connection
AddPantryItemBegin(item) ==
    /\ call = Idle
    /\ ncalls < MaxCalls
    /\ pre' = db
    /\ ncalls' = ncalls + 1
    /\ IF RLe(item.quantity, Zero)
       THEN /\ outcome' = [op |-> "add_pantry_item", status |-> "raised",
                           error |-> "ValueError", writes |-> 0]
            /\ UNCHANGED <<db, tx, call>>
       ELSE LET normalized_name == normalize_ingredient_name(item.ingredient_name)
                g == _get_or_create_ingredient(tx, normalized_name)
            IN  /\ db' = IF g.committed THEN g.tables ELSE db
                /\ tx' = g.tables
                /\ call' = [op              |-> "add_pantry_item",
                            normalized_name |-> normalized_name,
                            normalized_unit |-> normalize_unit(item.unit),
                            quantity        |-> item.quantity,
                            writes          |-> IF g.committed THEN 1 ELSE 0]
                /\ UNCHANGED outcome
    /\ UNCHANGED mealPlan

\* add_pantry_item, lines 41-69: the UPDATE or INSERT of the row, the commit
\* and the return
AddPantryItemWrite ==
    /\ call.op = "add_pantry_item"
    /\ db' = [tx EXCEPT !.pantry = upsert_pantry(@, call.normalized_name,
                                                 call.normalized_unit, call.quantity)]
    /\ tx' = db'
    /\ outcome' = [op |-> "add_pantry_item", status |-> "ok",
                   writes |-> call.writes + 1]
    /\ call' = Idle
    /\ UNCHANGED <<pre, mealPlan, ncalls>>

\* add_pantry_item, lines 71-73: the SELECT, UPDATE or INSERT raises
\* sqlite3.Error; roll back and re-raise
AddPantryItemRaises ==
    /\ call.op = "add_pantry_item"
    /\ tx' = db
    /\ outcome' = [op |-> "add_pantry_item", status |-> "raised",
                   error |-> "sqlite3.Error", writes |-> call.writes]
    /\ call' = Idle
    /\ UNCHANGED <<db, pre, mealPlan, ncalls>>

NextRecipe ==
    \/ \E recipe \in RecipeInputs : AddRecipe(recipe)
    \/ \E name \in RecipeNames, updated_recipe \in RecipeInputs :
          UpdateRecipe(name, updated_recipe)
    \/ InsertRecipeIngredient
    \/ InsertDietaryTag
    \/ CommitRecipe
    \/ RecipeRaises
    \/ \E item \in PantryStock : AddPantryItemBegin(item)
    \/ AddPantryItemWrite
    \/ AddPantryItemRaises

SpecRecipe == InitStore /\ [][NextRecipe]_vars

----------------------------------------------------------------------------
(* The current plan: save_meal_plan statement by statement.                *)

MaxSaves == 2

\* PlannedMeal objects handed to save_meal_plan; of a meal's recipe only
\* the id is read
PlannedMeals ==
    [day_number : {1, 2, 8},
     meal_type  : {"dinner"},
     recipe     : [id : {1}],
     servings   : {2}]

\* MealPlan objects of at most MaxMeals meals
PlanInputs ==
    {[meals |-> m, days |-> Len(m)] :
        m \in UNION {[1..k -> PlannedMeals] : k \in 0..MaxMeals}}

\* the current_meal_plan row of a PlannedMeal (save_meal_plan, line 172)
plan_row(meal) ==
    [day_number |-> meal.day_number,
     meal_type  |-> meal.meal_type,
     recipe_id  |-> meal.recipe.id,
     servings   |-> meal.servings]

\* the constraints of current_meal_plan (database.py, lines 276-286): the
\* CHECKs of day_number and meal_type, the FOREIGN KEY to recipes and
\* UNIQUE(day_number, meal_type)
plan_row_accepted(t, row) ==
    /\ row.day_number >= 1 /\ row.day_number <= 7
    /\ row.meal_type \in {"breakfast", "lunch", "dinner", "snack"}
    /\ \E r \in t.recipes : r.id = row.recipe_id
    /\ \A i \in DOMAIN t.current_meal_plan :
          ~(/\ t.current_meal_plan[i].day_number = row.day_number
            /\ t.current_meal_plan[i].meal_type = row.meal_type)

\* a DELETE FROM current_meal_plan that is committed at once
clear_plan_committing(d, t) ==
    [db |-> [t EXCEPT !.current_meal_plan = <<>>],
     tx |-> [t EXCEPT !.current_meal_plan = <<>>]]

\* DELETE FROM current_meal_plan on the open connection (line 165): the
\* committed tables and the connection's tables after it
clear_plan(d, t) ==
    [db |-> d,
     tx |-> [t EXCEPT !.current_meal_plan = <<>>]]

\* save_meal_plan(plan), lines 160-165
SaveMealPlan(plan) ==
    /\ call = Idle
    /\ ncalls < MaxCalls + MaxSaves
    /\ pre' = db
    /\ ncalls' = ncalls + 1
    /\ LET r == clear_plan(db, tx)
       IN  /\ db' = r.db
           /\ tx' = r.tx
    /\ call' = [op |-> "save_meal_plan", plan |-> plan, meals |-> plan.meals,
                writes |-> 1]
    /\ UNCHANGED <<outcome, mealPlan>>

\* lines 168-172: the INSERT of the next meal; a row the table's constraints
\* reject raises IntegrityError and the handler rolls back
InsertPlannedMeal ==
    /\ call.op = "save_meal_plan"
    /\ call.meals # <<>>
    /\ IF plan_row_accepted(tx, plan_row(Head(call.meals)))
       THEN /\ tx' = [tx EXCEPT !.current_meal_plan =
                         Append(@, plan_row(Head(call.meals)))]
            /\ call' = [call EXCEPT !.meals = Tail(@), !.writes = @ + 1]
            /\ UNCHANGED outcome
       ELSE /\ tx' = db
            /\ outcome' = [op |-> "save_meal_plan", plan |-> call.plan,
                           status |-> "raised", error |-> "IntegrityError",
                           writes |-> call.writes]
            /\ call' = Idle
    /\ UNCHANGED <<db, pre, mealPlan, ncalls>>

\* line 174: commit and return
SaveMealPlanCommit ==
    /\ call.op = "save_meal_plan"
    /\ call.meals = <<>>
    /\ db' = tx
    /\ tx' = tx
    /\ outcome' = [op |-> "save_meal_plan", plan |-> call.plan,
                   status |-> "ok", writes |-> call.writes]
    /\ call' = Idle
    /\ UNCHANGED <<pre, mealPlan, ncalls>>

\* lines 175-177: an INSERT or the commit raises sqlite3.Error; roll back
\* and re-raise
SaveMealPlanRaises ==
    /\ call.op = "save_meal_plan"
    /\ tx' = db
    /\ outcome' = [op |-> "save_meal_plan", plan |-> call.plan,
                   status |-> "raised", error |-> "sqlite3.Error",
                   writes |-> call.writes]
    /\ call' = Idle
    /\ UNCHANGED <<db, pre, mealPlan, ncalls>>

NextPlan ==
    \/ AddRecipe(RecipeY)
    \/ InsertRecipeIngredient
    \/ InsertDietaryTag
    \/ CommitRecipe
    \/ \E plan \in PlanInputs : SaveMealPlan(plan)
    \/ InsertPlannedMeal
    \/ SaveMealPlanCommit
    \/ SaveMealPlanRaises

SpecPlan == InitStore /\ [][NextPlan]_vars

----------------------------------------------------------------------------
(* The pantry store: the other operations of pantry_manager.py.            *)

\* the arguments update_pantry_quantity is called with
UpdateInputs ==
    {[ingredient_name |-> "flour",  quantity |-> <<0, 1>>,  unit |-> "cup"],
     [ingredient_name |-> "Flour ", quantity |-> <<5, 1>>,  unit |-> "Cups"],
     [ingredient_name |-> "Garlic", quantity |-> <<-1, 1>>, unit |-> "tsp"]}

\* the arguments remove_pantry_item is called with; the unit "" stands for
\* a call without a unit
RemoveInputs ==
    {[ingredient_name |-> "flour",  unit |-> ""],
     [ingredient_name |-> "Flour ", unit |-> "tablespoons"]}

\* the PantryItems add_pantry_item is called with and refuses
RejectedItems ==
    {[ingredient_name |-> "flour",  quantity |-> <<0, 1>>,  unit |-> "cup"],
     [ingredient_name |-> "Garlic", quantity |-> <<-1, 2>>, unit |-> "tsp"]}

\* update_pantry_quantity that writes the quantity 0 as it writes any other
update_pantry_quantity_writing_zero(pantry, ingredient_name, quantity, unit) ==
    LET normalized_name == normalize_ingredient_name(ingredient_name)
        normalized_unit == normalize_unit(unit)
    IN  [pantry |-> update_pantry_row(pantry, normalized_name, normalized_unit,
                                      quantity),
         value  |-> pantry_row(pantry, normalized_name, normalized_unit) # 0]

\* update_pantry_quantity, lines 176-201: the pantry table after it and the
\* value it returns
update_pantry_quantity(pantry, ingredient_name, quantity, unit) ==
    LET normalized_name == normalize_ingredient_name(ingredient_name)
        normalized_unit == normalize_unit(unit)
        updated == pantry_row(pantry, normalized_name, normalized_unit) # 0
    IN  [pantry |-> IF quantity = Zero
                    THEN delete_pantry_row(pantry, normalized_name, normalized_unit)
                    ELSE update_pantry_row(pantry, normalized_name, normalized_unit,
                                           quantity),
         value  |-> updated]

\* remove_pantry_item, lines 215-237: the pantry table after it and the
\* value it returns
remove_pantry_item(pantry, ingredient_name, unit) ==
    LET normalized_name == normalize_ingredient_name(ingredient_name)
        kept == IF unit # ""
                THEN delete_pantry_row(pantry, normalized_name, normalize_unit(unit))
                ELSE SelectSeq(pantry, LAMBDA r : r.name # normalized_name)
    IN  [pantry |-> kept, value |-> Len(kept) < Len(pantry)]

\* update_pantry_quantity(ingredient_name, quantity, unit)
UpdatePantryQuantity(args) ==
    /\ call = Idle
    /\ ncalls < MaxCalls + MaxDeducts
    /\ pre' = db
    /\ ncalls' = ncalls + 1
    /\ IF RLt(args.quantity, Zero)
       THEN /\ outcome' = [op |-> "update_pantry_quantity", args |-> args,
                           status |-> "raised", error |-> "ValueError"]
            /\ UNCHANGED <<db, tx>>
       ELSE LET r == update_pantry_quantity(db.pantry, args.ingredient_name,
                                            args.quantity, args.unit)
            IN  /\ db' = [db EXCEPT !.pantry = r.pantry]
                /\ tx' = db'
                /\ outcome' = [op |-> "update_pantry_quantity", args |-> args,
                               status |-> "ok", value |-> r.value]
    /\ UNCHANGED <<call, mealPlan>>

\* remove_pantry_item(ingredient_name, unit)
RemovePantryItem(args) ==
    /\ call = Idle
    /\ ncalls < MaxCalls + MaxDeducts
    /\ pre' = db
    /\ ncalls' = ncalls + 1
    /\ LET r == remove_pantry_item(db.pantry, args.ingredient_name, args.unit)
       IN  /\ db' = [db EXCEPT !.pantry = r.pantry]
           /\ tx' = db'
           /\ outcome' = [op |-> "remove_pantry_item", args |-> args,
                          status |-> "ok", value |-> r.value]
    /\ UNCHANGED <<call, mealPlan>>

\* clear_pantry(), lines 332-341
ClearPantry ==
    /\ call = Idle
    /\ ncalls < MaxCalls + MaxDeducts
    /\ pre' = db
    /\ ncalls' = ncalls + 1
    /\ db' = [db EXCEPT !.pantry = <<>>]
    /\ tx' = db'
    /\ outcome' = [op |-> "clear_pantry", status |-> "ok",
                   value |-> Len(db.pantry)]
    /\ UNCHANGED <<call, mealPlan>>

NextPantryStore ==
    \/ NextPantry
    \/ \E item \in RejectedItems : AddPantryItem(item)
    \/ \E args \in UpdateInputs : UpdatePantryQuantity(args)
    \/ \E args \in RemoveInputs : RemovePantryItem(args)
    \/ ClearPantry

SpecPantryStore == InitStore /\ [][NextPantryStore]_vars

----------------------------------------------------------------------------
(* The functions of the grocery list, called on their own: the call to     *)
(* make is drawn at the start and the action makes it.                     *)

MaxIngredients == 3

\* ingredient dicts as consolidate_ingredients receives them
IngredientInputs ==
    {[name |-> "chicken breast", quantity |-> <<8, 1>>,  unit |-> "oz"],
     [name |-> "chicken breast", quantity |-> <<1, 2>>,  unit |-> " LB"],
     [name |-> "flour",          quantity |-> <<1, 1>>,  unit |-> "cup"],
     [name |-> "Flour ",         quantity |-> <<2, 1>>,  unit |-> "tablespoons"],
     [name |-> "flour",          quantity |-> <<8, 1>>,  unit |-> "oz"],
     [name |-> "flour",          quantity |-> <<-1, 1>>, unit |-> "Cups"],
     [name |-> "flour",          quantity |-> <<2, 1>>,  unit |-> "cloves"]}

\* the lists of at most MaxIngredients ingredient dicts
IngredientLists ==
    UNION {[1..k -> IngredientInputs] : k \in 0..MaxIngredients}

\* the unit strings convert_units and can_convert_units are called with:
\* the units of the tables, the count units, spellings that normalize_unit
\* changes, and a unit of no table
UnitInputs ==
    DOMAIN VOLUME_TO_ML \cup DOMAIN WEIGHT_TO_G \cup COUNT_UNITS
    \cup {"Cups", " LB", "stalks"}

QuantityInputs == {<<1, 2>>, <<3, 1>>}

\* the calls of the functions
FunctionCalls ==
    {[op |-> "consolidate_ingredients", ingredients |-> l] : l \in IngredientLists}
    \cup [op : {"convert_units"}, quantity : QuantityInputs,
          from_unit : UnitInputs, to_unit : UnitInputs]

InitFunctions ==
    /\ db = EmptyDb
    /\ tx = EmptyDb
    /\ pre = EmptyDb
    /\ call \in FunctionCalls
    /\ outcome = [op |-> "none"]
    /\ mealPlan = [meals |-> <<>>, days |-> 0]
    /\ ncalls = 0

\* consolidate_ingredients(ingredients)
ConsolidateIngredients ==
    /\ call.op = "consolidate_ingredients"
    /\ outcome' = [op     |-> "consolidate_ingredients",
                   args   |-> call.ingredients,
                   status |-> "ok",
                   value  |-> consolidate_ingredients(call.ingredients)]
    /\ call' = Idle
    /\ UNCHANGED <<db, tx, pre, mealPlan, ncalls>>

\* convert_units(quantity, from_unit, to_unit), and what can_convert_units
\* says of the same units
ConvertUnits ==
    /\ call.op = "convert_units"
    /\ LET r == convert_units(call.quantity, call.from_unit, call.to_unit)
       IN  outcome' = [op          |-> "convert_units",
                       args        |-> call,
                       status      |-> IF r.raised THEN "raised" ELSE "ok",
                       value       |-> r.value,
                       can_convert |-> can_convert_units(call.from_unit, call.to_unit)]
    /\ call' = Idle
    /\ UNCHANGED <<db, tx, pre, mealPlan, ncalls>>

NextFunctions ==
    \/ ConsolidateIngredients
    \/ ConvertUnits

SpecFunctions == InitFunctions /\ [][NextFunctions]_vars
----------------------------------------------------------------------------
(* The store after start-up and the meal plan generator: generate_meal_plan *)
(* slot by slot, get_current_plan, and save_meal_plan of the generated plan. *)

MaxDays == 3
MaxGenerates == 1

\* the recipes load_default_recipes adds to an empty store (name, meal type,
\* servings, ingredients and tags of database.py, lines 51-202)
default_recipes ==
  <<
    [name |-> "Scrambled Eggs with Toast", meal_type |-> "breakfast", servings |-> 2,
     ingredients |->
       <<[ingredient_name |-> "eggs", quantity |-> <<4, 1>>, unit |-> "whole"],
         [ingredient_name |-> "butter", quantity |-> <<1, 1>>, unit |-> "tbsp"],
         [ingredient_name |-> "bread", quantity |-> <<4, 1>>, unit |-> "slices"],
         [ingredient_name |-> "milk", quantity |-> <<2, 1>>, unit |-> "tbsp"],
         [ingredient_name |-> "salt", quantity |-> <<1, 4>>, unit |-> "tsp"],
         [ingredient_name |-> "black pepper", quantity |-> <<1, 8>>, unit |-> "tsp"]>>,
     dietary_tags |-> <<"vegetarian">>],
    [name |-> "Oatmeal with Berries", meal_type |-> "breakfast", servings |-> 2,
     ingredients |->
       <<[ingredient_name |-> "rolled oats", quantity |-> <<1, 1>>, unit |-> "cup"],
         [ingredient_name |-> "water", quantity |-> <<2, 1>>, unit |-> "cups"],
         [ingredient_name |-> "blueberries", quantity |-> <<1, 2>>, unit |-> "cup"],
         [ingredient_name |-> "strawberries", quantity |-> <<1, 2>>, unit |-> "cup"],
         [ingredient_name |-> "honey", quantity |-> <<2, 1>>, unit |-> "tbsp"],
         [ingredient_name |-> "cinnamon", quantity |-> <<1, 2>>, unit |-> "tsp"]>>,
     dietary_tags |-> <<"vegetarian", "vegan">>],
    [name |-> "Grilled Cheese Sandwich", meal_type |-> "lunch", servings |-> 2,
     ingredients |->
       <<[ingredient_name |-> "bread", quantity |-> <<4, 1>>, unit |-> "slices"],
         [ingredient_name |-> "cheddar cheese", quantity |-> <<4, 1>>, unit |-> "slices"],
         [ingredient_name |-> "butter", quantity |-> <<2, 1>>, unit |-> "tbsp"]>>,
     dietary_tags |-> <<"vegetarian">>],
    [name |-> "Chicken Caesar Salad", meal_type |-> "lunch", servings |-> 2,
     ingredients |->
       <<[ingredient_name |-> "chicken breast", quantity |-> <<1, 1>>, unit |-> "lb"],
         [ingredient_name |-> "romaine lettuce", quantity |-> <<1, 1>>, unit |-> "head"],
         [ingredient_name |-> "parmesan cheese", quantity |-> <<1, 2>>, unit |-> "cup"],
         [ingredient_name |-> "Caesar dressing", quantity |-> <<1, 2>>, unit |-> "cup"],
         [ingredient_name |-> "croutons", quantity |-> <<1, 1>>, unit |-> "cup"],
         [ingredient_name |-> "olive oil", quantity |-> <<1, 1>>, unit |-> "tbsp"]>>,
     dietary_tags |-> <<>>],
    [name |-> "Spaghetti with Marinara", meal_type |-> "dinner", servings |-> 4,
     ingredients |->
       <<[ingredient_name |-> "spaghetti", quantity |-> <<1, 1>>, unit |-> "lb"],
         [ingredient_name |-> "crushed tomatoes", quantity |-> <<28, 1>>, unit |-> "oz"],
         [ingredient_name |-> "garlic", quantity |-> <<4, 1>>, unit |-> "cloves"],
         [ingredient_name |-> "olive oil", quantity |-> <<3, 1>>, unit |-> "tbsp"],
         [ingredient_name |-> "basil", quantity |-> <<1, 4>>, unit |-> "cup"],
         [ingredient_name |-> "salt", quantity |-> <<1, 1>>, unit |-> "tsp"],
         [ingredient_name |-> "black pepper", quantity |-> <<1, 2>>, unit |-> "tsp"]>>,
     dietary_tags |-> <<"vegetarian", "vegan">>],
    [name |-> "Baked Chicken with Vegetables", meal_type |-> "dinner", servings |-> 4,
     ingredients |->
       <<[ingredient_name |-> "chicken thighs", quantity |-> <<2, 1>>, unit |-> "lbs"],
         [ingredient_name |-> "potatoes", quantity |-> <<1, 1>>, unit |-> "lb"],
         [ingredient_name |-> "carrots", quantity |-> <<3, 1>>, unit |-> "whole"],
         [ingredient_name |-> "onion", quantity |-> <<1, 1>>, unit |-> "whole"],
         [ingredient_name |-> "olive oil", quantity |-> <<3, 1>>, unit |-> "tbsp"],
         [ingredient_name |-> "garlic powder", quantity |-> <<1, 1>>, unit |-> "tsp"],
         [ingredient_name |-> "paprika", quantity |-> <<1, 1>>, unit |-> "tsp"],
         [ingredient_name |-> "salt", quantity |-> <<1, 1>>, unit |-> "tsp"],
         [ingredient_name |-> "black pepper", quantity |-> <<1, 2>>, unit |-> "tsp"]>>,
     dietary_tags |-> <<>>],
    [name |-> "Fruit Smoothie", meal_type |-> "snack", servings |-> 2,
     ingredients |->
       <<[ingredient_name |-> "banana", quantity |-> <<1, 1>>, unit |-> "whole"],
         [ingredient_name |-> "strawberries", quantity |-> <<1, 1>>, unit |-> "cup"],
         [ingredient_name |-> "yogurt", quantity |-> <<1, 1>>, unit |-> "cup"],
         [ingredient_name |-> "milk", quantity |-> <<1, 2>>, unit |-> "cup"],
         [ingredient_name |-> "honey", quantity |-> <<1, 1>>, unit |-> "tbsp"]>>,
     dietary_tags |-> <<"vegetarian">>],
    [name |-> "Hummus with Veggies", meal_type |-> "snack", servings |-> 4,
     ingredients |->
       <<[ingredient_name |-> "chickpeas", quantity |-> <<15, 1>>, unit |-> "oz"],
         [ingredient_name |-> "tahini", quantity |-> <<1, 4>>, unit |-> "cup"],
         [ingredient_name |-> "lemon juice", quantity |-> <<3, 1>>, unit |-> "tbsp"],
         [ingredient_name |-> "garlic", quantity |-> <<2, 1>>, unit |-> "cloves"],
         [ingredient_name |-> "olive oil", quantity |-> <<2, 1>>, unit |-> "tbsp"],
         [ingredient_name |-> "carrots", quantity |-> <<2, 1>>, unit |-> "whole"],
         [ingredient_name |-> "celery", quantity |-> <<3, 1>>, unit |-> "stalks"]>>,
     dietary_tags |-> <<"vegetarian", "vegan">>]
  >>

\* add_recipe when nothing fails: the tables after its INSERT of the recipe
\* (lines 73-88), its ingredient loop (91-97) and its tag loop (100-104)
add_recipe(t, recipe) ==
    LET recipe_id == t.next_recipe_id
    IN  [insert_recipe(t, recipe) EXCEPT
           !.ingredients = @ \cup {normalize_ingredient_name(recipe.ingredients[i].ingredient_name) :
                                     i \in DOMAIN recipe.ingredients},
           !.recipe_ingredients = @ \o
               [i \in DOMAIN recipe.ingredients |->
                   [recipe_id |-> recipe_id,
                    name      |-> normalize_ingredient_name(recipe.ingredients[i].ingredient_name),
                    quantity  |-> recipe.ingredients[i].quantity,
                    unit      |-> recipe.ingredients[i].unit]],
           !.dietary_tags = @ \o
               [i \in DOMAIN recipe.dietary_tags |->
                   [recipe_id |-> recipe_id, tag |-> recipe.dietary_tags[i]]]]

RECURSIVE add_recipes(_, _)
add_recipes(t, recipes) ==
    IF recipes = <<>> THEN t
    ELSE add_recipes(add_recipe(t, Head(recipes)), Tail(recipes))

\* load_default_recipes: nothing when the store has recipes
load_default_recipes(t) ==
    IF t.recipes # {} THEN t ELSE add_recipes(t, default_recipes)

\* Python's None
None == [none |-> TRUE]

\* get_recipe(name): the Recipe of the row with that name, or None
get_recipe(t, name) ==
    IF recipes_named(t, name) = {} THEN None
    ELSE LET row == CHOOSE r \in recipes_named(t, name) : TRUE
             links == SelectSeq(t.recipe_ingredients, LAMBDA l : l.recipe_id = row.id)
             tags == SelectSeq(t.dietary_tags, LAMBDA g : g.recipe_id = row.id)
         IN  [id           |-> row.id,
              name         |-> row.name,
              meal_type    |-> row.meal_type,
              servings     |-> row.servings,
              ingredients  |-> [i \in DOMAIN links |->
                                   [ingredient_name |-> links[i].name,
                                    quantity        |-> links[i].quantity,
                                    unit            |-> links[i].unit]],
              dietary_tags |-> [i \in DOMAIN tags |-> tags[i].tag]]

\* get_all_recipes() without filters: the Recipe of every row
get_all_recipes(t) == {get_recipe(t, r.name) : r \in t.recipes}

valid_meals == {"breakfast", "lunch", "dinner", "snack"}

\* the arguments generate_meal_plan is called with
GenerateInputs ==
    [days : 0..MaxDays, meals : {<<"dinner">>, <<"lunch", "dinner">>}, servings : {2}]
    \cup [days : {8, 15}, meals : {<<"dinner">>}, servings : {2}]
    \cup [days : {1}, meals : {<<"dinner">>, <<"brunch">>}, servings : {0, 2}]

\* the last n elements of a list, as Python's s[-n:] gives them: the whole
\* list when n = 0
LastOf(s, n) ==
    IF n = 0 \/ n >= Len(s) THEN s ELSE SubSeq(s, Len(s) - n + 1, Len(s))

\* lines 82-92: the recipes random.choice draws from, for a recent window
\* of the given reach
candidates_within(available_recipes, recent_recipes, meal_type, max_lookback) ==
    LET recent_to_avoid == SelectSeq(LastOf(recent_recipes, max_lookback),
                                     LAMBDA r : r.meal_type = meal_type)
        candidates == {r \in available_recipes :
                          \A i \in DOMAIN recent_to_avoid : recent_to_avoid[i] # r}
    IN  IF candidates = {} THEN available_recipes ELSE candidates

\* lines 79-92 for one slot
candidates_for(t, recent_recipes, meal_type) ==
    LET available_recipes == {r \in get_all_recipes(t) : r.meal_type = meal_type}
        n == Cardinality(available_recipes)
        max_lookback == IF n - 1 < 7 THEN n - 1 ELSE 7
    IN  candidates_within(available_recipes, recent_recipes, meal_type, max_lookback)

\* generate_meal_plan(days, meals, servings), lines 40-72: the checks
GenerateMealPlan(args) ==
    /\ call = Idle
    /\ ncalls < MaxGenerates
    /\ pre' = db
    /\ ncalls' = ncalls + 1
    /\ IF \/ args.days < 1 \/ args.days > 14
          \/ args.servings < 1
          \/ \E i \in DOMAIN args.meals : args.meals[i] \notin valid_meals
          \/ get_all_recipes(db) = {}
          \/ \E i \in DOMAIN args.meals :
                \A r \in get_all_recipes(db) : r.meal_type # args.meals[i]
       THEN /\ outcome' = [op |-> "generate_meal_plan", args |-> args,
                           status |-> "raised", error |-> "ValueError"]
            /\ UNCHANGED call
       ELSE /\ call' = [op             |-> "generate_meal_plan",
                        args           |-> args,
                        day            |-> 1,
                        slot           |-> 1,
                        planned_meals  |-> <<>>,
                        recent_recipes |-> <<>>]
            /\ UNCHANGED outcome
    /\ UNCHANGED <<db, tx, mealPlan>>

\* lines 77-100: the next slot of the plan, its recipe drawn by random.choice
SelectRecipe ==
    /\ call.op = "generate_meal_plan"
    /\ call.day <= call.args.days
    /\ LET meal_type == call.args.meals[call.slot]
       IN  \E selected_recipe \in candidates_for(db, call.recent_recipes, meal_type) :
              call' = [call EXCEPT
                         !.planned_meals = Append(@, [day_number |-> call.day,
                                                      meal_type  |-> meal_type,
                                                      recipe     |-> selected_recipe,
                                                      servings   |-> call.args.servings]),
                         !.recent_recipes = Append(@, selected_recipe),
                         !.slot = IF call.slot = Len(call.args.meals) THEN 1 ELSE @ + 1,
                         !.day = IF call.slot = Len(call.args.meals) THEN @ + 1 ELSE @]
    /\ UNCHANGED <<db, tx, outcome, pre, mealPlan, ncalls>>

\* line 102: the MealPlan is returned
GenerateReturn ==
    /\ call.op = "generate_meal_plan"
    /\ call.day > call.args.days
    /\ mealPlan' = [meals |-> call.planned_meals, days |-> call.args.days]
    /\ outcome' = [op |-> "generate_meal_plan", args |-> call.args,
                   status |-> "ok", value |-> mealPlan']
    /\ call' = Idle
    /\ UNCHANGED <<db, tx, pre, ncalls>>

\* ORDER BY day_number, meal_type
MealTypeOrder == <<"breakfast", "dinner", "lunch", "snack">>

RECURSIVE OrderByDayAndType(_, _, _)
OrderByDayAndType(rows, day, k) ==
    IF day > 7 THEN <<>>
    ELSE SelectSeq(rows, LAMBDA r : r.day_number = day /\ r.meal_type = MealTypeOrder[k])
         \o (IF k = Len(MealTypeOrder)
             THEN OrderByDayAndType(rows, day + 1, 1)
             ELSE OrderByDayAndType(rows, day, k + 1))

\* lines 127-148: the PlannedMeals of the rows whose recipe is found
RECURSIVE planned_meals_of(_, _)
planned_meals_of(t, rows) ==
    IF rows = <<>> THEN <<>>
    ELSE LET row == Head(rows)
             found == {r \in t.recipes : r.id = row.recipe_id}
         IN  (IF found = {} THEN <<>>
              ELSE <<[day_number |-> row.day_number,
                      meal_type  |-> row.meal_type,
                      recipe     |-> get_recipe(t, (CHOOSE r \in found : TRUE).name),
                      servings   |-> row.servings]>>)
             \o planned_meals_of(t, Tail(rows))

\* the largest day_number of the rows
RECURSIVE max_day_of(_)
max_day_of(rows) ==
    IF rows = <<>> THEN 0
    ELSE LET m == max_day_of(Tail(rows))
         IN  IF Head(rows).day_number > m THEN Head(rows).day_number ELSE m

\* get_current_plan()
get_current_plan(t) ==
    LET rows == OrderByDayAndType(t.current_meal_plan, 1, 1)
        planned_meals == planned_meals_of(t, rows)
    IN  IF rows = <<>> \/ planned_meals = <<>> THEN None
        ELSE [meals |-> planned_meals, days |-> max_day_of(rows)]

GetCurrentPlan ==
    /\ call = Idle
    /\ outcome.op # "get_current_plan"
    /\ outcome' = [op |-> "get_current_plan", status |-> "ok",
                   value |-> get_current_plan(db)]
    /\ UNCHANGED <<db, tx, call, pre, mealPlan, ncalls>>

InitGenerate ==
    /\ db = load_default_recipes(EmptyDb)
    /\ tx = db
    /\ pre = db
    /\ call = Idle
    /\ outcome = [op |-> "none"]
    /\ mealPlan = [meals |-> <<>>, days |-> 0]
    /\ ncalls = 0

NextGenerate ==
    \/ \E args \in GenerateInputs : GenerateMealPlan(args)
    \/ SelectRecipe
    \/ GenerateReturn
    \/ SaveMealPlan(mealPlan)
    \/ InsertPlannedMeal
    \/ SaveMealPlanCommit
    \/ SaveMealPlanRaises
    \/ GetCurrentPlan

SpecGenerate == InitGenerate /\ [][NextGenerate]_vars

----------------------------------------------------------------------------
(* The stored plan and the recipes it refers to: swap_meal,                *)
(* update_meal_servings and delete_recipe, beside save_meal_plan,          *)
(* update_recipe and get_current_plan.                                     *)

MaxPlanCalls == 3

\* MealPlan objects of recipes read from the store after start-up
\* (Grilled Cheese Sandwich 3 and Chicken Caesar Salad 4 are lunches,
\* Spaghetti with Marinara 5 is a dinner); the last one has a slot twice
LunchOfDay1 ==
    [day_number |-> 1, meal_type |-> "lunch", recipe |-> [id |-> 3], servings |-> 2]

DinnerOfDay1 ==
    [day_number |-> 1, meal_type |-> "dinner", recipe |-> [id |-> 5], servings |-> 2]

LunchOfDay2 ==
    [day_number |-> 2, meal_type |-> "lunch", recipe |-> [id |-> 4], servings |-> 4]

StorePlans ==
    {[meals |-> m, days |-> Len(m)] :
        m \in {<<>>,
               <<LunchOfDay1, DinnerOfDay1>>,
               <<LunchOfDay2>>,
               <<LunchOfDay1, LunchOfDay2>>,
               <<DinnerOfDay1, LunchOfDay2, LunchOfDay2>>}}

\* the arguments swap_meal, update_meal_servings, delete_recipe and
\* update_recipe are called with
SwapInputs ==
    [day : {1, 2}, meal_type : {"lunch", "dinner"},
     new_recipe_name : {"chicken caesar salad", "Spaghetti with Marinara", "Nope"}]

ServingsInputs ==
    [day : {1, 2}, meal_type : {"lunch"}, new_servings : {0, 3}]

DeleteInputs == {"chicken caesar salad", "Spaghetti with Marinara", "Nope"}

\* UPDATE current_meal_plan SET recipe_id = ? for the rows of a day only,
\* whatever their meal type
swap_rows_of_day(t, day, meal_type, recipe_id) ==
    [t EXCEPT !.current_meal_plan =
        [i \in DOMAIN @ |->
            IF @[i].day_number = day
            THEN [@[i] EXCEPT !.recipe_id = recipe_id]
            ELSE @[i]]]

\* UPDATE current_meal_plan SET recipe_id = ? WHERE day_number = ? AND
\* meal_type = ? (swap_meal, lines 228-232)
swap_rows(t, day, meal_type, recipe_id) ==
    [t EXCEPT !.current_meal_plan =
        [i \in DOMAIN @ |->
            IF @[i].day_number = day /\ @[i].meal_type = meal_type
            THEN [@[i] EXCEPT !.recipe_id = recipe_id]
            ELSE @[i]]]

\* the rows of the current plan in a slot
rows_of_slot(t, day, meal_type) ==
    SelectSeq(t.current_meal_plan,
              LAMBDA row : row.day_number = day /\ row.meal_type = meal_type)

\* swap_meal(day, meal_type, new_recipe_name), lines 205-232: get_recipe, the
\* two checks, the SELECT of the slot and the UPDATE
SwapMeal(args) ==
    /\ call = Idle
    /\ ncalls < MaxPlanCalls
    /\ pre' = db
    /\ ncalls' = ncalls + 1
    /\ LET new_recipe == get_recipe(db, args.new_recipe_name)
       IN  IF new_recipe = None
           THEN /\ outcome' = [op |-> "swap_meal", args |-> args,
                               status |-> "raised", error |-> "ValueError"]
                /\ UNCHANGED <<tx, call>>
           ELSE IF new_recipe.meal_type # args.meal_type
           THEN /\ outcome' = [op |-> "swap_meal", args |-> args,
                               status |-> "raised", error |-> "ValueError"]
                /\ UNCHANGED <<tx, call>>
           ELSE IF rows_of_slot(tx, args.day, args.meal_type) = <<>>
           THEN /\ outcome' = [op |-> "swap_meal", args |-> args,
                               status |-> "ok", value |-> FALSE]
                /\ UNCHANGED <<tx, call>>
           ELSE /\ tx' = swap_rows(tx, args.day, args.meal_type, new_recipe.id)
                /\ call' = [op |-> "swap_meal", args |-> args,
                            new_recipe |-> new_recipe]
                /\ UNCHANGED outcome
    /\ UNCHANGED <<db, mealPlan>>

\* lines 234-235: commit and return True
SwapMealCommit ==
    /\ call.op = "swap_meal"
    /\ db' = tx
    /\ tx' = tx
    /\ outcome' = [op |-> "swap_meal", args |-> call.args,
                   status |-> "ok", value |-> TRUE,
                   new_recipe |-> call.new_recipe]
    /\ call' = Idle
    /\ UNCHANGED <<pre, mealPlan, ncalls>>

\* lines 237-239: the UPDATE or the commit raises; roll back and re-raise
SwapMealRaises ==
    /\ call.op = "swap_meal"
    /\ tx' = db
    /\ outcome' = [op |-> "swap_meal", args |-> call.args,
                   status |-> "raised", error |-> "sqlite3.Error"]
    /\ call' = Idle
    /\ UNCHANGED <<db, pre, mealPlan, ncalls>>

\* update_meal_servings(day, meal_type, new_servings), lines 294-310: the
\* check, the UPDATE and the commit; when the UPDATE raises nothing is
\* committed
UpdateMealServings(args) ==
    /\ call = Idle
    /\ ncalls < MaxPlanCalls
    /\ pre' = db
    /\ ncalls' = ncalls + 1
    /\ IF args.new_servings < 1
       THEN /\ outcome' = [op |-> "update_meal_servings", args |-> args,
                           status |-> "raised", error |-> "ValueError"]
            /\ UNCHANGED db
       ELSE \/ /\ db' = [db EXCEPT !.current_meal_plan =
                           [i \in DOMAIN @ |->
                               IF /\ @[i].day_number = args.day
                                  /\ @[i].meal_type = args.meal_type
                               THEN [@[i] EXCEPT !.servings = args.new_servings]
                               ELSE @[i]]]
               /\ outcome' = [op |-> "update_meal_servings", args |-> args,
                              status |-> "ok",
                              value |-> rows_of_slot(db, args.day, args.meal_type) # <<>>]
            \/ /\ outcome' = [op |-> "update_meal_servings", args |-> args,
                              status |-> "raised", error |-> "sqlite3.Error"]
               /\ UNCHANGED db
    /\ tx' = db'
    /\ UNCHANGED <<call, mealPlan>>

\* DELETE FROM recipes WHERE LOWER(name) = LOWER(?) on a connection that
\* does not enforce foreign keys: the rows of the plan keep their recipe_id
delete_recipe_unchecked(t, name) ==
    LET ids == {r.id : r \in recipes_named(t, name)}
    IN  [raised |-> FALSE,
         tables |-> [t EXCEPT
                       !.recipes = @ \ recipes_named(t, name),
                       !.recipe_ingredients = SelectSeq(@, LAMBDA l : l.recipe_id \notin ids),
                       !.dietary_tags = SelectSeq(@, LAMBDA g : g.recipe_id \notin ids)],
         value  |-> ids # {}]

\* delete_recipe(name), lines 338-347, with PRAGMA foreign_keys = ON
\* (get_connection): the DELETE raises IntegrityError when a row of
\* current_meal_plan references the recipe, and otherwise takes the
\* recipe's ingredient links and tags with it (ON DELETE CASCADE)
delete_recipe(t, name) ==
    LET ids == {r.id : r \in recipes_named(t, name)}
    IN  IF \E i \in DOMAIN t.current_meal_plan : t.current_meal_plan[i].recipe_id \in ids
        THEN [raised |-> TRUE, tables |-> t, value |-> FALSE]
        ELSE [raised |-> FALSE,
              tables |-> [t EXCEPT
                            !.recipes = @ \ recipes_named(t, name),
                            !.recipe_ingredients = SelectSeq(@, LAMBDA l : l.recipe_id \notin ids),
                            !.dietary_tags = SelectSeq(@, LAMBDA g : g.recipe_id \notin ids)],
              value  |-> ids # {}]

DeleteRecipe(name) ==
    /\ call = Idle
    /\ ncalls < MaxPlanCalls
    /\ pre' = db
    /\ ncalls' = ncalls + 1
    /\ LET r == delete_recipe(db, name)
       IN  IF r.raised
           THEN /\ outcome' = [op |-> "delete_recipe", name |-> name,
                               status |-> "raised", error |-> "IntegrityError"]
                /\ UNCHANGED db
           ELSE /\ db' = r.tables
                /\ outcome' = [op |-> "delete_recipe", name |-> name,
                               status |-> "ok", value |-> r.value]
    /\ tx' = db'
    /\ UNCHANGED <<call, mealPlan>>

\* save_meal_plan as one of the calls made on the plan store
SaveStorePlan(plan) ==
    /\ ncalls < MaxPlanCalls
    /\ SaveMealPlan(plan)

InitPlanStore == InitGenerate

NextPlanStore ==
    \/ \E plan \in StorePlans : SaveStorePlan(plan)
    \/ InsertPlannedMeal
    \/ SaveMealPlanCommit
    \/ SaveMealPlanRaises
    \/ \E args \in SwapInputs : SwapMeal(args)
    \/ SwapMealCommit
    \/ SwapMealRaises
    \/ \E args \in ServingsInputs : UpdateMealServings(args)
    \/ \E name \in DeleteInputs : DeleteRecipe(name)
    \/ \E updated_recipe \in {RecipeX, RecipeZ} :
          UpdateRecipe("chicken caesar salad", updated_recipe)
    \/ InsertRecipeIngredient
    \/ InsertDietaryTag
    \/ CommitRecipe
    \/ RecipeRaises
    \/ GetCurrentPlan

SpecPlanStore == InitPlanStore /\ [][NextPlanStore]_vars

----------------------------------------------------------------------------
(* Properties of the grocery list.                                         *)

\* the consolidated list of the plan, before deduction and sort
Consolidated == consolidate_ingredients(all_ingredients(mealPlan.meals))

\* the last call was generate_grocery_list with / without pantry deduction
GeneratedDeducted ==
    outcome.op = "generate_grocery_list" /\ outcome.deduct_pantry

GeneratedPlain ==
    outcome.op = "generate_grocery_list" /\ ~outcome.deduct_pantry

\* the pantry rows with the normalized name of grocery item g
RowsOf(g) ==
    SelectSeq(get_pantry_items(db.pantry),
              LAMBDA p : normalize_ingredient_name(p.ingredient_name)
                         = normalize_ingredient_name(g.ingredient_name))

\* the stock of the rows whose unit is the given one or convertible to it,
\* expressed in that unit
RECURSIVE ConvertibleStock(_, _)
ConvertibleStock(rows, unit) ==
    IF rows = <<>> THEN Zero
    ELSE LET p == Head(rows)
             usable == IF p.unit = unit \/ can_convert_units(p.unit, unit)
                       THEN convert_units(p.quantity, p.unit, unit).value
                       ELSE Zero
         IN  RAdd(usable, ConvertibleStock(Tail(rows), unit))

ExpectedRemaining(g) ==
    RMax(Zero, RSub(g.quantity, ConvertibleStock(RowsOf(g), g.unit)))

\* the items of the returned list that stand for grocery item g
EmittedFor(g) ==
    {j \in DOMAIN outcome.value :
        /\ normalize_ingredient_name(outcome.value[j].ingredient_name)
           = normalize_ingredient_name(g.ingredient_name)
        /\ outcome.value[j].unit = g.unit}

\* C1: for every grocery item with a pantry row of its normalized name, the
\* need left by the deduction loop is max(0, need - S), S the stock of the
\* rows in the same or a convertible unit expressed in the item's unit, and
\* that is the quantity the deducted list shows for the item.
C1_RemainingIsNeedMinusStock ==
    GeneratedDeducted =>
        \A i \in DOMAIN Consolidated :
            LET g == Consolidated[i]
            IN  RowsOf(g) # <<>> =>
                  /\ remaining_after(g.quantity, g.unit, RowsOf(g)) = ExpectedRemaining(g)
                  /\ \A j \in EmittedFor(g) :
                        outcome.value[j].quantity = ExpectedRemaining(g)

\* C1 witness: a deducted list with an item partly covered by two pantry
\* rows of its ingredient, one of them held in another, convertible unit.
C1_Witness ==
    /\ GeneratedDeducted
    /\ \E i \in DOMAIN Consolidated :
          LET g == Consolidated[i]
          IN  /\ Len(RowsOf(g)) > 1
              /\ \A k \in DOMAIN RowsOf(g) : can_convert_units(RowsOf(g)[k].unit, g.unit)
              /\ \E k \in DOMAIN RowsOf(g) : RowsOf(g)[k].unit # g.unit
              /\ RLt(Zero, ExpectedRemaining(g))
              /\ RLt(ExpectedRemaining(g), g.quantity)
              /\ EmittedFor(g) # {}

\* C2: generate_grocery_list with deduct_pantry = true changes no pantry row,
\* and a second call right after the first returns the same list.
C2_GenerationLeavesPantry ==
    [][(outcome'.op = "generate_grocery_list" /\ outcome'.deduct_pantry) =>
          /\ db' = db
          /\ GeneratedDeducted => outcome' = outcome]_vars

\* C2 witness: a deducted list that left out a covered item, with the pantry
\* rows that cover it still in the table.
C2_Witness ==
    /\ GeneratedDeducted
    /\ db = pre
    /\ \E i \in DOMAIN Consolidated :
          /\ RowsOf(Consolidated[i]) # <<>>
          /\ EmittedFor(Consolidated[i]) = {}

\* the sequences with the elements of seq in every order
Orders(seq) ==
    {[i \in DOMAIN seq |-> seq[f[i]]] : f \in Permutations(DOMAIN seq)}

Tuples(items) ==
    [i \in DOMAIN items |->
       <<items[i].ingredient_name, items[i].unit, items[i].quantity>>]

SameMultiset(s, t) ==
    /\ Len(s) = Len(t)
    /\ \A i \in DOMAIN s :
          Cardinality({j \in DOMAIN s : s[j] = s[i]})
          = Cardinality({j \in DOMAIN t : t[j] = s[i]})

\* the dimension of a normalized unit: volume, weight, or the unit itself
Dimension(unit) ==
    IF unit \in DOMAIN VOLUME_TO_ML THEN "volume"
    ELSE IF unit \in DOMAIN WEIGHT_TO_G THEN "weight"
    ELSE unit

\* a quantity in milliliters or grams; in its own unit outside both tables
InBase(quantity, unit) ==
    IF unit \in DOMAIN VOLUME_TO_ML THEN RMul(quantity, VOLUME_TO_ML[unit])
    ELSE IF unit \in DOMAIN WEIGHT_TO_G THEN RMul(quantity, WEIGHT_TO_G[unit])
    ELSE quantity

RECURSIVE BaseTotal(_, _, _)
BaseTotal(items, normalized, dimension) ==
    IF items = <<>> THEN Zero
    ELSE LET g == Head(items)
             mine == /\ normalize_ingredient_name(g.ingredient_name) = normalized
                     /\ Dimension(g.unit) = dimension
         IN  RAdd(IF mine THEN InBase(g.quantity, g.unit) ELSE Zero,
                  BaseTotal(Tail(items), normalized, dimension))

NamesOf(items) ==
    {normalize_ingredient_name(items[i].ingredient_name) : i \in DOMAIN items}

DimensionsOf(items) == {Dimension(items[i].unit) : i \in DOMAIN items}

\* C3 as claimed: every order of the plan's meals consolidates to the same
\* multiset of (name, unit, quantity) tuples.
C3_SameTuplesInEveryOrder ==
    GeneratedPlain =>
        \A meals \in Orders(mealPlan.meals) :
            SameMultiset(Tuples(consolidate_ingredients(all_ingredients(meals))),
                         Tuples(outcome.value))

\* C3 as amended: every order of the plan's meals consolidates to the same
\* total per normalized ingredient name and unit dimension (volume in ml,
\* weight in g, any other unit by itself); the unit and display name of an
\* entry are those met first and so depend on the order.
C3_SameTotalsInEveryOrder ==
    GeneratedPlain =>
        \A meals \in Orders(mealPlan.meals) :
            LET other == consolidate_ingredients(all_ingredients(meals))
            IN  \A n \in NamesOf(other) \cup NamesOf(outcome.value) :
                \A d \in DimensionsOf(other) \cup DimensionsOf(outcome.value) :
                    BaseTotal(other, n, d) = BaseTotal(outcome.value, n, d)

\* C3 witness: a consolidated plan one of whose orders gives other tuples.
C3_Witness ==
    /\ GeneratedPlain
    /\ \E meals \in Orders(mealPlan.meals) :
          ~SameMultiset(Tuples(consolidate_ingredients(all_ingredients(meals))),
                        Tuples(outcome.value))

\* C4: no two entries of a consolidated list with the same normalized name
\* have units that can_convert_units says are convertible.
C4_CompatibleUnitsCollapsed ==
    GeneratedPlain =>
        \A i, j \in DOMAIN outcome.value :
            (/\ i # j
             /\ normalize_ingredient_name(outcome.value[i].ingredient_name)
                = normalize_ingredient_name(outcome.value[j].ingredient_name))
            => ~can_convert_units(outcome.value[i].unit, outcome.value[j].unit)

\* C5 as claimed: every item of a deducted list has a quantity above 0.01.
C5_EveryItemAboveThreshold ==
    GeneratedDeducted =>
        \A j \in DOMAIN outcome.value : RLt(THRESHOLD, outcome.value[j].quantity)

\* C5 as amended: an item with a pantry row of its normalized name is in the
\* deducted list exactly when its remaining need is above 0.01; an item with
\* no such row is in the list unchanged whatever its quantity.
C5_ThresholdForMatchedItems ==
    GeneratedDeducted =>
        \A i \in DOMAIN Consolidated :
            LET g == Consolidated[i]
            IN  IF RowsOf(g) # <<>>
                THEN /\ EmittedFor(g) # {} <=> RLt(THRESHOLD, ExpectedRemaining(g))
                     /\ \A j \in EmittedFor(g) :
                           RLt(THRESHOLD, outcome.value[j].quantity)
                ELSE \E j \in EmittedFor(g) : outcome.value[j] = g

\* C5 witness: a deducted list that leaves out an item whose remaining need
\* is positive but not above 0.01.
C5_Witness ==
    /\ GeneratedDeducted
    /\ \E i \in DOMAIN Consolidated :
          LET g == Consolidated[i]
          IN  /\ RowsOf(g) # <<>>
              /\ RLt(Zero, ExpectedRemaining(g))
              /\ RLe(ExpectedRemaining(g), THRESHOLD)
              /\ EmittedFor(g) = {}

\* C6: an item whose required quantity is covered by the pantry stock of its
\* ingredient, in the same or a convertible unit, is not in the deducted list.
C6_FullCoverageOmits ==
    GeneratedDeducted =>
        \A i \in DOMAIN Consolidated :
            LET g == Consolidated[i]
            IN  RLe(g.quantity, ConvertibleStock(RowsOf(g), g.unit))
                => EmittedFor(g) = {}

\* C6 witness: a deducted list without an item that only pantry rows in
\* another unit cover.
C6_Witness ==
    /\ GeneratedDeducted
    /\ \E i \in DOMAIN Consolidated :
          LET g == Consolidated[i]
          IN  /\ RLe(g.quantity, ConvertibleStock(RowsOf(g), g.unit))
              /\ \A k \in DOMAIN RowsOf(g) : RowsOf(g)[k].unit # g.unit
              /\ EmittedFor(g) = {}


----------------------------------------------------------------------------
(* Properties of the pantry store.                                         *)

\* the last call was deduct_from_pantry and it returned / raised
DeductReturned ==
    call = Idle /\ outcome.op = "deduct_from_pantry" /\ outcome.status = "ok"

DeductRaised ==
    call = Idle /\ outcome.op = "deduct_from_pantry" /\ outcome.status = "raised"

\* the quantity of the pantry row of (name, unit), zero when there is none
QuantityOf(pantry, name, unit) ==
    IF pantry_row(pantry, name, unit) = 0 THEN Zero
    ELSE pantry[pantry_row(pantry, name, unit)].quantity

\* the rows of the ingredient in a unit that is, or converts to, the unit
Convertible(pantry, name, unit) ==
    SelectSeq(pantry, LAMBDA r : r.name = name /\ can_convert_units(r.unit, unit))

\* the other rows of the table
Untouchable(pantry, name, unit) ==
    SelectSeq(pantry, LAMBDA r : ~(r.name = name /\ can_convert_units(r.unit, unit)))

\* what the rows lost from the table before to the table after, each loss
\* expressed in the unit
RECURSIVE Removed(_, _, _)
Removed(rows, after, unit) ==
    IF rows = <<>> THEN Zero
    ELSE LET r == Head(rows)
             lost == RSub(r.quantity, QuantityOf(after, r.name, r.unit))
         IN  RAdd(convert_units(lost, r.unit, unit).value,
                  Removed(Tail(rows), after, unit))

\* C7: a deduct_from_pantry call for a quantity q > 0 that returns conserves
\* quantity: what the ingredient's convertible rows lost, expressed in the
\* requested unit, plus the returned value is q; the value is 0 when the
\* convertible stock covers q (0.5 cup off a 2 cup row leaves 1.5 cup and
\* returns 0); rows of other ingredients or of non-convertible units are as
\* before, and no row is added.
C7_DeductConserves ==
    DeductReturned /\ RLt(Zero, outcome.args.quantity) =>
        LET name == normalize_ingredient_name(outcome.args.ingredient_name)
            unit == normalize_unit(outcome.args.unit)
            q == outcome.args.quantity
            stock == ConvertibleStock(Convertible(pre.pantry, name, unit), unit)
        IN  /\ RAdd(Removed(Convertible(pre.pantry, name, unit), db.pantry, unit),
                    outcome.value) = q
            /\ RLe(q, stock) => outcome.value = Zero
            /\ outcome.value = RMax(Zero, RSub(q, stock))
            /\ Untouchable(db.pantry, name, unit) = Untouchable(pre.pantry, name, unit)
            /\ \A i \in DOMAIN db.pantry :
                  pantry_row(pre.pantry, db.pantry[i].name, db.pantry[i].unit) # 0
            /\ (/\ pre.pantry = <<[name |-> "flour", quantity |-> <<2, 1>>, unit |-> "cup"]>>
                /\ q = <<1, 2>> /\ name = "flour" /\ unit = "cup")
               => /\ db.pantry = <<[name |-> "flour", quantity |-> <<3, 2>>, unit |-> "cup"]>>
                  /\ outcome.value = Zero

\* C7 witness: a call that returned after it took from a row of the
\* ingredient held in another, convertible unit.
C7_Witness ==
    /\ DeductReturned
    /\ outcome.writes >= 1
    /\ \E i \in DOMAIN pre.pantry :
          /\ pre.pantry[i].name = normalize_ingredient_name(outcome.args.ingredient_name)
          /\ pre.pantry[i].unit # normalize_unit(outcome.args.unit)
          /\ can_convert_units(pre.pantry[i].unit, normalize_unit(outcome.args.unit))
          /\ QuantityOf(db.pantry, pre.pantry[i].name, pre.pantry[i].unit)
             # pre.pantry[i].quantity

\* C8: deduct_from_pantry is transactional: while the call runs nothing of
\* it is committed; when a statement raises, the pantry is the pantry before
\* the call; when it returns, the pantry is the one with all of the call's
\* updates and deletes.
C8_DeductAllOrNothing ==
    /\ call.op = "deduct_from_pantry" => db = pre
    /\ DeductRaised => db = pre /\ tx = pre
    /\ DeductReturned =>
          db = deduct_from_pantry(pre, outcome.args.ingredient_name,
                                  outcome.args.quantity, outcome.args.unit).db

\* C8 witness: a call that raised after it had updated or deleted a row.
C8_Witness ==
    /\ DeductRaised
    /\ outcome.writes >= 1
    /\ pre.pantry # <<>>

----------------------------------------------------------------------------
(* Properties of the recipe store.                                         *)

\* the last call was a write to the store that raised
WriteRaised ==
    /\ call = Idle
    /\ outcome.op \in {"add_recipe", "update_recipe", "add_pantry_item"}
    /\ outcome.status = "raised"

\* C9: an add_recipe, update_recipe or add_pantry_item call that raises
\* leaves the store as it was before the call: no recipe row, ingredient
\* link, ingredient row or deletion of the call persists.
C9_RaisedWriteLeavesStore ==
    WriteRaised => db = pre

----------------------------------------------------------------------------
(* Properties of the current plan.                                         *)

\* the last call was save_meal_plan and it returned / raised
SaveReturned ==
    call = Idle /\ outcome.op = "save_meal_plan" /\ outcome.status = "ok"

SaveRaised ==
    call = Idle /\ outcome.op = "save_meal_plan" /\ outcome.status = "raised"

\* the rows of a plan's meals, in the order of the meals
RowsOfPlan(plan) == [i \in DOMAIN plan.meals |-> plan_row(plan.meals[i])]

\* C10: save_meal_plan replaces the current plan atomically: while the call
\* runs the stored plan is the previous one; after a call that returned it
\* is exactly the rows of the new plan's meals; after a call that raised
\* it is exactly the previous plan, and nothing else of the store changed.
C10_PlanReplacedAtomically ==
    /\ call.op = "save_meal_plan" => db = pre
    /\ SaveReturned =>
          db = [pre EXCEPT !.current_meal_plan = RowsOfPlan(outcome.plan)]
    /\ SaveRaised => db = pre /\ tx = pre

\* C10 witness: a save that raised after it had deleted a stored plan and
\* inserted a meal of the new one.
C10_Witness ==
    /\ SaveRaised
    /\ outcome.writes >= 2
    /\ pre.current_meal_plan # <<>>

----------------------------------------------------------------------------
(* Properties of the pantry table under all of its operations.             *)

\* no two rows of the table have the same ingredient name and unit, and
\* names and units are stored normalized
OneRowPerNameAndUnit(pantry) ==
    /\ \A i, j \in DOMAIN pantry :
          (pantry[i].name = pantry[j].name /\ pantry[i].unit = pantry[j].unit) => i = j
    /\ \A i \in DOMAIN pantry :
          /\ normalize_ingredient_name(pantry[i].name) = pantry[i].name
          /\ normalize_unit(pantry[i].unit) = pantry[i].unit

\* what a returning add_pantry_item(item) does to the table
AddedTo(before, after, item) ==
    LET name == normalize_ingredient_name(item.ingredient_name)
        unit == normalize_unit(item.unit)
        existing == pantry_row(before, name, unit)
    IN  IF existing # 0
        THEN /\ Len(after) = Len(before)
             /\ \A i \in DOMAIN before :
                   after[i] = IF i = existing
                              THEN [before[i] EXCEPT !.quantity = RAdd(@, item.quantity)]
                              ELSE before[i]
        ELSE after = Append(before, [name |-> name, quantity |-> item.quantity,
                                     unit |-> unit])

\* C11: after any sequence of add_pantry_item, update_pantry_quantity,
\* remove_pantry_item, deduct_from_pantry and clear_pantry calls the pantry
\* has at most one row per (normalized name, normalized unit); adding an
\* ingredient in a unit it already has adds to that row's quantity, adding
\* it in another unit appends a row.
C11_OneRowPerNameAndUnit ==
    [][/\ OneRowPerNameAndUnit(db'.pantry)
       /\ OneRowPerNameAndUnit(tx'.pantry)
       /\ \A item \in PantryStock :
             AddPantryItem(item) => AddedTo(db.pantry, db'.pantry, item)]_vars

\* C11 witness: the ingredient added last is held in two rows of different
\* units.
C11_Witness ==
    /\ call = Idle
    /\ outcome.op = "add_pantry_item"
    /\ \E i, j \in DOMAIN db.pantry :
          /\ db.pantry[i].name = db.pantry[j].name
          /\ db.pantry[i].unit # db.pantry[j].unit
          /\ db.pantry # pre.pantry

----------------------------------------------------------------------------
(* Properties of consolidate_ingredients.                                  *)

\* the last call was consolidate_ingredients
ConsolidateReturned == outcome.op = "consolidate_ingredients"

\* the input dicts of a normalized name
InputsOf(ingredients, normalized) ==
    SelectSeq(ingredients, LAMBDA x : normalize_ingredient_name(x.name) = normalized)

\* the sum of the inputs whose normalized unit is in the set, each converted
\* to the unit
RECURSIVE SumIn(_, _, _)
SumIn(inputs, units, unit) ==
    IF inputs = <<>> THEN Zero
    ELSE LET x == Head(inputs)
             mine == normalize_unit(x.unit) \in units
         IN  RAdd(IF mine THEN convert_units(x.quantity, x.unit, unit).value ELSE Zero,
                  SumIn(Tail(inputs), units, unit))

\* the normalized units of the inputs that have the dimension of the unit
UnitsOfDimension(inputs, unit) ==
    {normalize_unit(inputs[i].unit) : i \in DOMAIN inputs}
    \cap {u \in DOMAIN VOLUME_TO_ML \cup DOMAIN WEIGHT_TO_G \cup {unit} :
             Dimension(u) = Dimension(unit)}

\* C12: folding merges only within a dimension: the quantity of an emitted
\* entry is the sum of the inputs of its ingredient in some units of the
\* entry's own dimension (volume, weight, or for any other unit that very
\* unit), its own unit among them, each converted to the entry's unit.
C12_FoldWithinDimension ==
    ConsolidateReturned =>
        \A j \in DOMAIN outcome.value :
            LET e == outcome.value[j]
                inputs == InputsOf(outcome.args, normalize_ingredient_name(e.ingredient_name))
            IN  \E units \in SUBSET UnitsOfDimension(inputs, e.unit) :
                    /\ e.unit \in units
                    /\ e.quantity = SumIn(inputs, units, e.unit)

\* C12 witness: one ingredient given in a volume unit, a weight unit and a
\* count unit, consolidated to three entries.
C12_Witness ==
    /\ ConsolidateReturned
    /\ Len(outcome.value) = 3
    /\ \A i, j \in DOMAIN outcome.value :
          /\ outcome.value[i].ingredient_name = outcome.value[j].ingredient_name
          /\ i # j => Dimension(outcome.value[i].unit) # Dimension(outcome.value[j].unit)
    /\ {Dimension(outcome.value[i].unit) : i \in DOMAIN outcome.value}
       = {"volume", "weight", "cloves"}

\* the normalized names of the input dicts
InputNames(ingredients) ==
    {normalize_ingredient_name(ingredients[i].name) : i \in DOMAIN ingredients}

\* the sum of the inputs, each in milliliters, grams or its own unit
RECURSIVE InputTotal(_)
InputTotal(inputs) ==
    IF inputs = <<>> THEN Zero
    ELSE RAdd(InBase(Head(inputs).quantity, normalize_unit(Head(inputs).unit)),
              InputTotal(Tail(inputs)))

\* the entries of the list for the normalized name in a unit that converts
\* to the unit
EntriesOf(items, normalized, unit) ==
    {j \in DOMAIN items :
        /\ normalize_ingredient_name(items[j].ingredient_name) = normalized
        /\ can_convert_units(items[j].unit, unit)}

\* C13: folding conserves the total: the inputs of an ingredient in the
\* first-encountered unit and in the units convertible to it come out as a
\* single entry in the first-encountered unit whose quantity, in grams or
\* milliliters, is the sum of those inputs in grams or milliliters; 8 oz and
\* 0.5 lb of chicken breast give 1.0 lb when lb comes first and 16 oz when
\* oz comes first.
C13_FoldConservesTotal ==
    ConsolidateReturned =>
        /\ \A n \in InputNames(outcome.args) :
              LET inputs == InputsOf(outcome.args, n)
                  first == normalize_unit(inputs[1].unit)
                  folded == SelectSeq(inputs, LAMBDA x : can_convert_units(x.unit, first))
              IN  RLt(Zero, InputTotal(folded)) =>
                    /\ Cardinality(EntriesOf(outcome.value, n, first)) = 1
                    /\ \A j \in EntriesOf(outcome.value, n, first) :
                          /\ outcome.value[j].unit = first
                          /\ InBase(outcome.value[j].quantity, first) = InputTotal(folded)
        /\ outcome.args = <<[name |-> "chicken breast", quantity |-> <<1, 2>>, unit |-> " LB"],
                            [name |-> "chicken breast", quantity |-> <<8, 1>>, unit |-> "oz"]>>
           => outcome.value = <<[ingredient_name |-> "chicken breast", quantity |-> <<1, 1>>,
                                 unit |-> "lb", category |-> "Meat & Seafood"]>>
        /\ outcome.args = <<[name |-> "chicken breast", quantity |-> <<8, 1>>, unit |-> "oz"],
                            [name |-> "chicken breast", quantity |-> <<1, 2>>, unit |-> " LB"]>>
           => outcome.value = <<[ingredient_name |-> "chicken breast", quantity |-> <<16, 1>>,
                                 unit |-> "oz", category |-> "Meat & Seafood"]>>

\* C13 witness: 8 oz and then 0.5 lb of chicken breast, folded to 16 oz.
C13_Witness ==
    /\ ConsolidateReturned
    /\ Len(outcome.args) = 2
    /\ outcome.args[1].unit = "oz" /\ outcome.args[2].unit = " LB"
    /\ Len(outcome.value) = 1
    /\ outcome.value[1].quantity = <<16, 1>>

\* the entries of the list for the normalized name in exactly the unit
EntriesIn(items, normalized, unit) ==
    {j \in DOMAIN items :
        /\ normalize_ingredient_name(items[j].ingredient_name) = normalized
        /\ items[j].unit = unit}

\* the sum a (name, unit) pair holds after folding: for the first unit of
\* the name the inputs in it and in the units convertible to it, for a unit
\* that does not convert to the first one the inputs in that unit
SumAfterFolding(inputs, unit) ==
    LET first == normalize_unit(inputs[1].unit)
    IN  IF unit = first
        THEN InputTotal(SelectSeq(inputs, LAMBDA x : can_convert_units(x.unit, first)))
        ELSE InputTotal(SelectSeq(inputs, LAMBDA x : normalize_unit(x.unit) = unit))

\* C18: consolidate_ingredients never emits an entry whose quantity is zero
\* or negative, and a (name, unit) sum that is <= 0 after folding produces
\* no entry.
C18_OnlyPositiveQuantities ==
    ConsolidateReturned =>
        /\ \A j \in DOMAIN outcome.value : RLt(Zero, outcome.value[j].quantity)
        /\ \A n \in InputNames(outcome.args) :
              LET inputs == InputsOf(outcome.args, n)
              IN  \A i \in DOMAIN inputs :
                      LET unit == normalize_unit(inputs[i].unit)
                      IN  RLe(SumAfterFolding(inputs, unit), Zero)
                          => EntriesIn(outcome.value, n, unit) = {}

\* C18 witness: flour whose cups sum to zero and whose ounces are positive,
\* consolidated to the single entry in ounces.
C18_Witness ==
    /\ ConsolidateReturned
    /\ LET inputs == InputsOf(outcome.args, "flour")
       IN  /\ Len(inputs) = 3
           /\ normalize_unit(inputs[1].unit) = "cup"
           /\ SumAfterFolding(inputs, "cup") = Zero
           /\ RLt(Zero, SumAfterFolding(inputs, "oz"))
    /\ Len(outcome.value) = 1
    /\ outcome.value[1].unit = "oz"

ConvertReturned == outcome.op = "convert_units"

\* the same normalized unit, two volume units or two weight units
Compatible(from_unit, to_unit) ==
    Dimension(normalize_unit(from_unit)) = Dimension(normalize_unit(to_unit))

\* C20: convert_units and can_convert_units agree for every pair of units:
\* can_convert_units is true exactly for the same normalized unit, two
\* volume units or two weight units; convert_units returns a value exactly
\* then, the same amount in milliliters or grams, and raises the conversion
\* error exactly otherwise, so no volume/weight, volume/count, weight/count
\* or differing count/count pair gets a quantity.
C20_ConvertAgreesWithCanConvert ==
    ConvertReturned =>
        LET from_unit == outcome.args.from_unit
            to_unit == outcome.args.to_unit
        IN  /\ outcome.can_convert <=> Compatible(from_unit, to_unit)
            /\ outcome.status = "ok" <=> outcome.can_convert
            /\ outcome.status = "raised" <=> ~outcome.can_convert
            /\ outcome.status = "ok" =>
                  InBase(outcome.value, normalize_unit(to_unit))
                  = InBase(outcome.args.quantity, normalize_unit(from_unit))

\* C20 witness: a conversion from a volume unit to a weight unit, raised.
C20_Witness ==
    /\ ConvertReturned
    /\ outcome.status = "raised"
    /\ normalize_unit(outcome.args.from_unit) \in DOMAIN VOLUME_TO_ML
    /\ normalize_unit(outcome.args.to_unit) \in DOMAIN WEIGHT_TO_G

----------------------------------------------------------------------------
(* Properties of generate_grocery_list: scaling, the empty plan, the sort. *)

\* the last call was generate_grocery_list
Generated == outcome.op = "generate_grocery_list"

\* ingredient.quantity * planned_servings / recipe.servings for every
\* ingredient of every meal, meal after meal
RECURSIVE ScaledAsSpecified(_)
ScaledAsSpecified(meals) ==
    IF meals = <<>> THEN <<>>
    ELSE LET meal == Head(meals)
         IN  [i \in DOMAIN meal.recipe.ingredients |->
                [name     |-> meal.recipe.ingredients[i].ingredient_name,
                 quantity |-> RDiv(RMul(meal.recipe.ingredients[i].quantity,
                                        <<meal.servings, 1>>),
                                   <<meal.recipe.servings, 1>>),
                 unit     |-> meal.recipe.ingredients[i].unit]]
             \o ScaledAsSpecified(Tail(meals))

\* the meals with the planned servings of each doubled
Doubled(meals) == [k \in DOMAIN meals |-> [meals[k] EXCEPT !.servings = 2 * @]]

\* C14: scaling is exact and linear: the quantities fed to consolidation are
\* ingredient.quantity * planned_servings / recipe.servings under the
\* ingredient's own name and unit; doubling the planned servings doubles
\* each of them; recipe A (4 servings, 1 cup flour) planned at 2 servings
\* feeds flour 0.5 cup.
C14_ScalingLinear ==
    Generated =>
        LET fed == all_ingredients(mealPlan.meals)
            twice == all_ingredients(Doubled(mealPlan.meals))
        IN  /\ fed = ScaledAsSpecified(mealPlan.meals)
            /\ Len(twice) = Len(fed)
            /\ \A i \in DOMAIN fed :
                  /\ twice[i].quantity = RMul(<<2, 1>>, fed[i].quantity)
                  /\ twice[i].name = fed[i].name
                  /\ twice[i].unit = fed[i].unit
            /\ (/\ mealPlan.meals # <<>>
                /\ mealPlan.meals[1].recipe = RecipeA
                /\ mealPlan.meals[1].servings = 2)
               => fed[1] = [name |-> "flour", quantity |-> <<1, 2>>, unit |-> "cup"]

\* C14 witness: a list generated for a plan with recipe A, whose servings
\* are 4, planned at 2 servings.
C14_Witness ==
    /\ Generated
    /\ mealPlan.meals # <<>>
    /\ mealPlan.meals[1].recipe = RecipeA
    /\ mealPlan.meals[1].recipe.servings = 4
    /\ mealPlan.meals[1].servings = 2

\* C15: for a plan with zero meals generate_grocery_list returns the empty
\* list, with and without pantry deduction and whatever the pantry holds.
C15_EmptyPlanEmptyList ==
    (Generated /\ mealPlan.meals = <<>>) => outcome.value = <<>>

\* C15 witness: a list generated with pantry deduction for the plan without
\* meals while the pantry holds rows.
C15_Witness ==
    /\ Generated
    /\ outcome.deduct_pantry
    /\ mealPlan.meals = <<>>
    /\ db.pantry # <<>>

\* the place of a category in the fixed priority; every other category
\* comes after the nine named ones
Priority(category) ==
    CASE category = "Produce"        -> 1
      [] category = "Meat & Seafood" -> 2
      [] category = "Dairy & Eggs"   -> 3
      [] category = "Bakery"         -> 4
      [] category = "Pantry"         -> 5
      [] category = "Canned Goods"   -> 6
      [] category = "Condiments"     -> 7
      [] category = "Frozen"         -> 8
      [] category = "Other"          -> 9
      [] OTHER                       -> 10

InPriorityOrder(items) ==
    \A i, j \in DOMAIN items :
        i < j => Priority(items[i].category) <= Priority(items[j].category)

\* the list handed to the category sort: the consolidated list, after the
\* deduction when it was asked for
Unsorted ==
    IF outcome.deduct_pantry
    THEN _deduct_pantry_from_list(Consolidated, db.pantry).items
    ELSE Consolidated

\* the list with item k given a category that category_order does not name
Recategorized(items, k) == [items EXCEPT ![k].category = "Deli"]

\* C16: the list generate_grocery_list returns is in the fixed category
\* priority (no item is preceded by an item of a later category), and the
\* sort puts an item of a category outside the nine named ones after every
\* item of a named category.  get_ingredient_category yields named
\* categories only, so the second part is checked on the sort applied to the
\* same list with one item recategorized.
C16_CategoryPriorityOrder ==
    Generated =>
        /\ InPriorityOrder(outcome.value)
        /\ \A k \in DOMAIN Unsorted :
              LET sorted == SortFrom(Recategorized(Unsorted, k), 0)
              IN  /\ InPriorityOrder(sorted)
                  /\ sorted[Len(sorted)].category = "Deli"

\* C16 witness: a returned list of four categories whose unsorted list was
\* not in priority order and held an item of category Other, which a
\* recategorized earlier item has to follow.
C16_Witness ==
    /\ Generated
    /\ Cardinality({outcome.value[j].category : j \in DOMAIN outcome.value}) = 4
    /\ ~InPriorityOrder(Unsorted)
    /\ \E j \in DOMAIN Unsorted : j > 1 /\ Unsorted[j].category = "Other"

\* the items of one category, in list order
OfCategory(items, category) ==
    SelectSeq(items, LAMBDA item : item.category = category)

\* C17: the category sort is stable: the items of each category appear in
\* the returned list in the order they had in the consolidation (and
\* deduction) output.
C17_SortStable ==
    Generated =>
        \A category \in {Unsorted[k].category : k \in DOMAIN Unsorted} :
            OfCategory(outcome.value, category) = OfCategory(Unsorted, category)

\* C17 witness: a returned list with two items of one category that the sort
\* moved, an item of another category having stood between or before them.
C17_Witness ==
    /\ Generated
    /\ outcome.value # Unsorted
    /\ \E category \in {Unsorted[k].category : k \in DOMAIN Unsorted} :
          /\ Len(OfCategory(outcome.value, category)) >= 2
          /\ \E i, j \in DOMAIN Unsorted :
                /\ i < j
                /\ Unsorted[j].category = category
                /\ Unsorted[i].category # category
                /\ Priority(Unsorted[i].category) > Priority(category)

----------------------------------------------------------------------------
(* Validation of the public write operations.                              *)

\* C21: after any sequence of add_recipe and update_recipe calls every
\* stored recipe has servings >= 1 (a call whose recipe has non-positive
\* servings having been rejected without a write).
C21_StoredServingsPositive ==
    \A r \in db.recipes : r.servings >= 1

\* the last call was deduct_from_pantry with a non-positive quantity, and it
\* is over
DeductedNonPositive ==
    /\ call = Idle
    /\ outcome.op = "deduct_from_pantry"
    /\ RLe(outcome.args.quantity, Zero)

\* C22: deduct_from_pantry called with a non-positive quantity raises a
\* validation error, and no pantry row is changed.
C22_NonPositiveDeductRejected ==
    DeductedNonPositive =>
        /\ outcome.status = "raised"
        /\ db.pantry = pre.pantry

----------------------------------------------------------------------------
(* Properties of the meal plan generator and the stored plan.              *)

\* generate_meal_plan returned a plan
GeneratedPlan ==
    call = Idle /\ outcome.op = "generate_meal_plan" /\ outcome.status = "ok"

\* the slots of the plan before slot i that have its meal type, the latest
\* first
RECURSIVE EarlierSlots(_, _, _)
EarlierSlots(meals, i, j) ==
    IF j = 0 THEN <<>>
    ELSE (IF meals[j].meal_type = meals[i].meal_type THEN <<j>> ELSE <<>>)
         \o EarlierSlots(meals, i, j - 1)

\* the recipes of the store with the meal type
AvailableFor(meal_type) == {r \in db.recipes : r.meal_type = meal_type}

\* C23: generate_meal_plan avoids recently used recipes: in a slot whose
\* meal type has n >= 2 recipes, the selected recipe differs from the
\* recipes of the previous min(7, n - 1) slots of that meal type.
C23_NoRepeatWithinWindow ==
    GeneratedPlan =>
        LET meals == outcome.value.meals
        IN  \A i \in DOMAIN meals :
                LET n == Cardinality(AvailableFor(meals[i].meal_type))
                    earlier == EarlierSlots(meals, i, i - 1)
                    window == IF n - 1 < 7 THEN n - 1 ELSE 7
                IN  n >= 2 =>
                        \A k \in DOMAIN earlier :
                            k <= window => meals[earlier[k]].recipe.id # meals[i].recipe.id

\* the meals of a plan, as a set
MealsOf(plan) == {plan.meals[i] : i \in DOMAIN plan.meals}

\* C29: every plan generate_meal_plan returns can be stored and read back:
\* save_meal_plan of it is not rejected by the store, and get_current_plan
\* then returns the same set of (day_number, meal_type, recipe, servings)
\* meals.
C29_GeneratedPlanRoundTrips ==
    /\ (/\ call = Idle
        /\ outcome.op = "save_meal_plan"
        /\ outcome.plan.meals # <<>>
        /\ outcome.status = "raised")
       => outcome.error # "IntegrityError"
    /\ (/\ outcome.op = "get_current_plan"
        /\ db.current_meal_plan # <<>>)
       => /\ outcome.value # None
          /\ MealsOf(outcome.value) = MealsOf(mealPlan)

\* the last call was swap_meal, and it is over
Swapped == call = Idle /\ outcome.op = "swap_meal"

\* the recipes of the store before the call that swap_meal's name stands for
Named(name) == {r \in pre.recipes : LOWER(r.name) = LOWER(name)}

\* the slot swap_meal addressed is in the plan stored before the call
SlotPlanned ==
    \E i \in DOMAIN pre.current_meal_plan :
        /\ pre.current_meal_plan[i].day_number = outcome.args.day
        /\ pre.current_meal_plan[i].meal_type = outcome.args.meal_type

\* C24: swap_meal changes only the recipe of the addressed (day, meal_type)
\* slot: the slot's servings and every other slot of the plan are as before,
\* and so is the rest of the store; it returns False when the slot is not in
\* the plan, raises when the recipe does not exist or has another meal
\* type, and in these cases, as while the call runs or when a statement
\* fails, the stored plan is unchanged.
C24_SwapChangesOneSlot ==
    /\ call.op = "swap_meal" => db = pre
    /\ Swapped =>
          LET usable == {r \in Named(outcome.args.new_recipe_name) :
                            r.meal_type = outcome.args.meal_type}
          IN  /\ usable = {} <=> (outcome.status = "raised" /\ outcome.error = "ValueError")
              /\ (usable # {} /\ ~SlotPlanned)
                 => (outcome.status = "ok" /\ outcome.value = FALSE)
              /\ (outcome.status = "raised" \/ outcome.value = FALSE) => db = pre
              /\ (outcome.status = "ok" /\ outcome.value = TRUE) =>
                    /\ SlotPlanned
                    /\ db = [pre EXCEPT !.current_meal_plan = db.current_meal_plan]
                    /\ Len(db.current_meal_plan) = Len(pre.current_meal_plan)
                    /\ \A i \in DOMAIN pre.current_meal_plan :
                          LET before == pre.current_meal_plan[i]
                              after == db.current_meal_plan[i]
                          IN  IF /\ before.day_number = outcome.args.day
                                 /\ before.meal_type = outcome.args.meal_type
                              THEN /\ after.recipe_id \in {r.id : r \in usable}
                                   /\ after = [before EXCEPT !.recipe_id = after.recipe_id]
                              ELSE after = before

\* C24 witness: a swap that returned True on a plan of two slots of one
\* day and gave the addressed slot another recipe.
C24_Witness ==
    /\ Swapped
    /\ outcome.status = "ok"
    /\ outcome.value = TRUE
    /\ Len(pre.current_meal_plan) = 2
    /\ pre.current_meal_plan[1].day_number = pre.current_meal_plan[2].day_number
    /\ db.current_meal_plan # pre.current_meal_plan

\* every row of the current plan of the tables references a stored recipe
PlanRowsReferenced(t) ==
    \A i \in DOMAIN t.current_meal_plan :
        \E r \in t.recipes : r.id = t.current_meal_plan[i].recipe_id

\* the last call was delete_recipe of a recipe that the plan stored before
\* the call uses, and no call has begun since
DeletedUsedRecipe ==
    /\ call = Idle
    /\ outcome.op = "delete_recipe"
    /\ \E r \in pre.recipes :
          /\ LOWER(r.name) = LOWER(outcome.name)
          /\ \E i \in DOMAIN pre.current_meal_plan :
                pre.current_meal_plan[i].recipe_id = r.id

\* C30: after any sequence of save_meal_plan, swap_meal,
\* update_meal_servings, delete_recipe and update_recipe calls every row of
\* the current plan references a recipe of the store; delete_recipe of a
\* recipe the plan uses raises and leaves the recipe and the plan as they
\* were; get_current_plan returns a meal for every row.
C30_PlanReferencesRecipes ==
    /\ PlanRowsReferenced(db)
    /\ PlanRowsReferenced(tx)
    /\ DeletedUsedRecipe => (outcome.status = "raised" /\ db = pre)
    /\ (call = Idle /\ outcome.op = "get_current_plan") =>
          IF db.current_meal_plan = <<>>
          THEN outcome.value = None
          ELSE /\ outcome.value # None
               /\ Len(outcome.value.meals) = Len(db.current_meal_plan)

\* C30 witness: delete_recipe of a recipe that the stored plan uses, raised.
C30_Witness ==
    /\ DeletedUsedRecipe
    /\ outcome.status = "raised"
    /\ db.current_meal_plan # <<>>

\* what the deduction loop took off grocery item g, in the unit of g
DeductedFor(g) ==
    IF RowsOf(g) = <<>> THEN Zero
    ELSE RSub(g.quantity, remaining_after(g.quantity, g.unit, RowsOf(g)))

\* the total taken off the entries of the ingredient of g whose unit is the
\* unit of g or convertible to it, expressed in the unit of g
RECURSIVE DeductedAcross(_, _)
DeductedAcross(entries, g) ==
    IF entries = <<>> THEN Zero
    ELSE LET h == Head(entries)
             same == /\ normalize_ingredient_name(h.ingredient_name)
                        = normalize_ingredient_name(g.ingredient_name)
                     /\ (h.unit = g.unit \/ can_convert_units(h.unit, g.unit))
         IN  RAdd(IF same
                  THEN convert_units(DeductedFor(h), h.unit, g.unit).value
                  ELSE Zero,
                  DeductedAcross(Tail(entries), g))

\* C25: in a deducted grocery list, for every ingredient the total taken off
\* its entries of one dimension, in a common unit, is at most the stock the
\* pantry holds of the ingredient in that dimension.
C25_StockCountedOnce ==
    GeneratedDeducted =>
        \A i \in DOMAIN Consolidated :
            LET g == Consolidated[i]
            IN  RLe(DeductedAcross(Consolidated, g),
                    ConvertibleStock(RowsOf(g), g.unit))

----------------------------------------------------------------------------
(* The two deduction paths.                                                *)

\* the grocery item of the last deduct_from_pantry call: its ingredient, its
\* quantity and its normalized unit
DeductedItem ==
    [ingredient_name |-> outcome.args.ingredient_name,
     quantity        |-> outcome.args.quantity,
     unit            |-> normalize_unit(outcome.args.unit),
     category        |-> get_ingredient_category(outcome.args.ingredient_name)]

\* what _deduct_pantry_from_list returns for that item alone on the pantry
\* before the call
Displayed == _deduct_pantry_from_list(<<DeductedItem>>, pre.pantry).items

\* C26: on the same pantry and for the same ingredient, quantity above 0 and
\* normalized unit, deduct_from_pantry returns the quantity with which
\* _deduct_pantry_from_list emits the item, and a value of at most 0.01 when
\* _deduct_pantry_from_list leaves the item out.
C26_DeductionPathsAgree ==
    DeductReturned /\ RLt(Zero, outcome.args.quantity) =>
        IF Displayed = <<>>
        THEN RLe(outcome.value, THRESHOLD)
        ELSE /\ Len(Displayed) = 1
             /\ outcome.value = Displayed[1].quantity

\* C26 witness: a call that returned what is left of the need after two
\* pantry rows of the ingredient, one held in another unit, while the
\* display path emits the item.
C26_Witness ==
    /\ DeductReturned
    /\ RLt(Zero, outcome.args.quantity)
    /\ Displayed # <<>>
    /\ RLt(Displayed[1].quantity, outcome.args.quantity)
    /\ \E i \in DOMAIN pre.pantry :
          /\ pre.pantry[i].name = normalize_ingredient_name(outcome.args.ingredient_name)
          /\ pre.pantry[i].unit # normalize_unit(outcome.args.unit)
          /\ can_convert_units(pre.pantry[i].unit, normalize_unit(outcome.args.unit))


----------------------------------------------------------------------------
(* The quantities of the pantry rows.                                      *)

\* every row of the pantry table holds a quantity above 0
RowsPositive(pantry) ==
    \A i \in DOMAIN pantry : RLt(Zero, pantry[i].quantity)

\* this step is an add_pantry_item call with a quantity of 0 or less: it
\* raises and changes nothing
RejectedAddStep ==
    \A item \in RejectedItems :
        AddPantryItem(item) => (outcome'.status = "raised" /\ db' = db)

\* this step is an update_pantry_quantity call: with a quantity below 0 it
\* raises and changes nothing, with the quantity 0 the row it names is gone
UpdateStep ==
    \A args \in UpdateInputs :
        UpdatePantryQuantity(args) =>
            IF RLt(args.quantity, Zero)
            THEN outcome'.status = "raised" /\ db' = db
            ELSE args.quantity = Zero =>
                    /\ outcome'.status = "ok"
                    /\ pantry_row(db'.pantry,
                                  normalize_ingredient_name(args.ingredient_name),
                                  normalize_unit(args.unit)) = 0

\* C28: after any sequence of add_pantry_item, update_pantry_quantity,
\* remove_pantry_item and deduct_from_pantry calls every pantry row holds a
\* quantity above 0, in the committed table and on the open connection: an
\* addition with a quantity of 0 or less and an update with a quantity below
\* 0 raise and change nothing, an update to 0 deletes the row, and a
\* deduction that brings a row to 0 or less deletes it.
C28_PantryRowsPositive ==
    /\ [](RowsPositive(db.pantry) /\ RowsPositive(tx.pantry))
    /\ [][RejectedAddStep /\ UpdateStep]_vars

\* C28 witness: update_pantry_quantity to 0 returned True, the row it named
\* is gone and another row of the pantry is left.
C28_Witness ==
    /\ outcome.op = "update_pantry_quantity"
    /\ outcome.status = "ok"
    /\ outcome.args.quantity = Zero
    /\ outcome.value
    /\ Len(db.pantry) = Len(pre.pantry) - 1
    /\ db.pantry # <<>>
====
